---- MODULE Spec2Model ----
(***************************************************************************)
(* Hooklab: the in-memory state and decision engine of the webhook capture *)
(* service (src/app.go), the webhook request path (src/handlers.go) and    *)
(* the streaming loop of one SSE connection (src/sse.go).                  *)
(*                                                                         *)
(* Every method of App that takes a.mu for its whole body and does not     *)
(* block inside is one atomic action.  A handler that calls several such   *)
(* methods is a process with one step per critical section.                *)
(***************************************************************************)
EXTENDS Integers, Sequences, FiniteSets, TLC

(***************************************************************************)
(* Program constants and model bounds                                      *)
(***************************************************************************)
\* src/app.go:71  const maxEvents = 50
maxEvents == 50
\* src/app.go:100 StatusCode of the built-in fallback config
FallbackStatus == 200
\* src/app.go:125 make(chan Event, 1)
ChanCap == 1
\* src/handlers.go:15 const maxBodySize = 1 << 20
maxBodySize == 1048576

\* direct storeEvent calls made in the event-log specification
MaxStores == 52
\* events of a key other than "default" that may sit in the log at once
MaxKeyedEvents == 1
\* webhook requests in flight or finished
MaxReqs == 1
\* webhook requests that run against each other
MaxRaceReqs == 2
\* streaming connections
MaxLoops == 1
\* channels ever made (by addSubscriber or by a caller's own make)
MaxChans == 3
\* rules ever created by addRule
MaxRuleIDs == 3
\* rules ever created where rules are evaluated as well
MaxEvalRules == 2
\* rules in a list handed to setRules
MaxSetRules == 2
\* goroutines that call state operations concurrently
MaxCallers == 2
\* calls those goroutines make altogether
MaxCalls == 3
\* POST requests made to the response-config API and the rules API
MaxPosts == 2

Keys == {"default", "alpha"}
Methods == {"POST"}
\* request bodies: absent, two JSON objects, and text that is not JSON
Bodies == {"", "{\"amount\":150}", "{\"amount\":50}", "not json"}

Min(a, b) == IF a < b THEN a ELSE b

VARIABLES
    events,       \* a.events: the log, most recent first
    lastID,       \* a.lastID
    history,      \* ghost: every event storeEvent returned, oldest first
    responses,    \* a.responses: key -> ResponseConfig (a partial map)
    rules,        \* a.rules: key -> sequence of Rule (a partial map)
    ruleLastID,   \* a.ruleLastID
    subscribers,  \* a.subscribers: the set of registered channels
    chans,        \* every channel made so far: buffer, closed flag, number of close calls
    loop,         \* the streaming loops (eventsStreamLoop), one per connection
    req,          \* the webhook requests (webhookHandler)
    ret,          \* the last direct call of a state operation and what it returned
    call,         \* goroutines calling one state operation each, step by step
    mu            \* a.mu: the caller that holds it, or Free

vars == <<events, lastID, history, responses, rules, ruleLastID,
          subscribers, chans, loop, req, ret, call, mu>>

Reqs == 1..MaxReqs
RaceReqs == 1..MaxRaceReqs
Loops == 1..MaxLoops
Callers == 1..MaxCallers
\* the zero value of sync.Mutex: unlocked
Free == 0

(***************************************************************************)
(* EventLog                                                                *)
(***************************************************************************)
\* Event{ID, Method, Key, Body}; Timestamp, Path and Headers are carried
\* along unread by the state operations and are left out.
NewEvent(id, key, method, body) ==
    [ID |-> id, Key |-> key, Method |-> method, Body |-> body]

storeEventLog_OffByOne(evs, event) ==
    LET all == <<event>> \o evs
    IN  IF Len(all) >= maxEvents THEN SubSeq(all, 1, maxEvents - 1) ELSE all

\* the log after storeEvent: prepend, then keep the first maxEvents entries
storeEventLog(evs, event) ==
    LET all == <<event>> \o evs
    IN  IF Len(all) > maxEvents THEN SubSeq(all, 1, maxEvents) ELSE all

\* number of events in the log whose key is not "default"
KeyedInLog == Cardinality({i \in 1..Len(events) : events[i].Key # "default"})

\* a Go map: nil and empty behave alike for every read the program makes
EmptyMap == [k \in {} |-> 0]
MapPut(m, k, v) == [x \in (DOMAIN m) \cup {k} |-> IF x = k THEN v ELSE m[x]]

NoCall == [op |-> "none"]
NoMatch == [matched |-> FALSE]

IdleReq == [pc |-> "idle"]
\* a goroutine between calls; n counts the calls it has made
IdleCall == [pc |-> "idle", n |-> 0]
\* a streaming connection before eventsStreamLoop has run: pc is the position
\* in the loop, sub the subscriber channel (0: none yet), last the select case
\* handled last, out the IDs of the events written as data frames
IdleLoop ==
    [pc |-> "init", ctxDone |-> FALSE, sub |-> 0, last |-> "none", out |-> <<>>]

Init ==
    /\ events = <<>>
    /\ lastID = 0
    /\ history = <<>>
    /\ responses = EmptyMap
    /\ rules = EmptyMap
    /\ ruleLastID = 0
    /\ subscribers = {}
    /\ chans = <<>>
    /\ loop = [l \in Loops |-> IdleLoop]
    /\ req = [r \in RaceReqs |-> IdleReq]
    /\ ret = NoCall
    /\ call = [c \in Callers |-> IdleCall]
    /\ mu = Free

\* a.storeEvent(r, key, body) called directly
StoreEvent(key, method, body) ==
    /\ mu = Free
    /\ lastID < MaxStores
    /\ key = "default" \/ KeyedInLog < MaxKeyedEvents
    /\ LET event == NewEvent(lastID + 1, key, method, body)
       IN  /\ lastID' = lastID + 1
           /\ events' = storeEventLog(events, event)
           /\ history' = Append(history, event)
           /\ ret' = [op |-> "storeEvent", res |-> event]
    /\ UNCHANGED <<responses, rules, ruleLastID, subscribers, chans, loop, req,
                   call, mu>>

NextLog == \E k \in Keys, m \in Methods : StoreEvent(k, m, "")

SpecLog == Init /\ [][NextLog]_vars

(***************************************************************************)
(* C1: after n storeEvent calls the log holds exactly the min(n, 50) most  *)
(* recently stored events, most recent first, with strictly decreasing     *)
(* IDs; a store beyond the 50th drops the oldest event and nothing else.   *)
(***************************************************************************)
C1_LogHoldsMostRecent ==
    LET n == Len(history)
    IN  /\ Len(events) = Min(n, 50)
        /\ \A i \in 1..Len(events) : events[i] = history[n - i + 1]
        /\ \A i \in 1..(Len(events) - 1) : events[i].ID > events[i + 1].ID

\* more than 50 stores happened and an event of a non-default key was among them
C1_Witness ==
    /\ Len(history) > 50
    /\ \E i \in 1..Len(history) : history[i].Key = "alpha"
    /\ ret.op = "storeEvent"

(***************************************************************************)
(* Events listing                                                          *)
(***************************************************************************)
\* the key filters a listing is asked with: none (the empty text), the two
\* keys events are stored for, and a key no event is stored for
ListKeys == Keys \cup {"", "beta"}

eventsHandler_IgnoresFilter(evs, key) == [null |-> evs = <<>>, events |-> evs]

\* the EventsResponse a.eventsHandler encodes for ?key=key when the log is
\* evs.  Without a filter it is append([]Event(nil), a.events...), which is
\* the nil slice (JSON null) for an empty log; with a filter it is a slice
\* made on the spot to which the events of that key are appended in log order.
eventsHandler(evs, key) ==
    IF key = ""
    THEN [null |-> evs = <<>>, events |-> evs]
    ELSE [null |-> FALSE, events |-> SelectSeq(evs, LAMBDA e : e.Key = key)]

\* GET /api/events?key=key
EventsHandler(key) ==
    /\ mu = Free
    /\ ret' = [op |-> "eventsHandler", key |-> key, res |-> eventsHandler(events, key)]
    /\ UNCHANGED <<events, lastID, history, responses, rules, ruleLastID,
                   subscribers, chans, loop, req,
                   call, mu>>

NextEvents ==
    \/ \E k \in Keys, m \in Methods : StoreEvent(k, m, "")
    \/ \E k \in ListKeys : EventsHandler(k)

SpecEvents == Init /\ [][NextEvents]_vars

(***************************************************************************)
(* C20: the events listing returns a copy of the log as it is at the call: *)
(* all stored events when no key filter is given, and with a key filter    *)
(* exactly the stored events of that key, both in stored order (most       *)
(* recent first); a key no stored event has gives an empty list; the       *)
(* listing leaves the log unchanged.                                       *)
(***************************************************************************)
C20_Listed ==
    ret.op = "eventsHandler" =>
        LET at == {i \in 1..Len(events) : ret.key = "" \/ events[i].Key = ret.key}
            out == ret.res.events
        IN  /\ Len(out) = Cardinality(at)
            /\ \A i \in at : out[Cardinality({j \in at : j <= i})] = events[i]
            /\ ret.key = "" => out = events
            /\ (ret.key # "" /\ at = {}) => (out = <<>> /\ ~ret.res.null)

C20_ListingIsSnapshot ==
    /\ []C20_Listed
    /\ [][\A k \in ListKeys :
             EventsHandler(k) => (events' = events /\ lastID' = lastID)]_vars

\* the log holds an "alpha" event between two "default" events: the listing
\* for "default" returned the two in log order
C20_Witness ==
    /\ ret.op = "eventsHandler"
    /\ ret.key = "default"
    /\ Len(events) = 3
    /\ events[2].Key = "alpha"
    /\ ret.res.events = <<events[1], events[3]>>
    /\ events[1].ID > events[3].ID

(***************************************************************************)
(* ResponseConfigStore                                                     *)
(***************************************************************************)
\* the values a caller may put in a ResponseConfig
ResponseValues == {"resp_a", "resp_b"}
StatusValues == {0, 404}
RawValues == {"raw_a", "raw_b"}
ConfigInputs ==
    [Response : ResponseValues, ResponseRaw : RawValues, StatusCode : StatusValues]
\* keys a caller may ask or set a config for: "" is the empty key, "beta" a key
\* no config is ever stored under
ConfigSetKeys == Keys \cup {""}
ConfigGetKeys == Keys \cup {"", "beta"}

\* ResponseConfig{Response: map[string]string{"result": "ok"}, StatusCode: 200}
FallbackConfig ==
    [Response |-> "{\"result\":\"ok\"}", ResponseRaw |-> "", StatusCode |-> FallbackStatus]

getResponseConfig_NoDefault(resp, key) ==
    IF key \in DOMAIN resp THEN resp[key] ELSE FallbackConfig

\* what a.getResponseConfig(key) returns when a.responses is resp
getResponseConfig(resp, key) ==
    IF key \in DOMAIN resp THEN resp[key]
    ELSE IF "default" \in DOMAIN resp THEN resp["default"]
    ELSE FallbackConfig

setResponseConfig_Merge(resp, key, config) ==
    LET k == IF key = "" THEN "default" ELSE key
    IN  MapPut(resp, k,
               IF k \in DOMAIN resp /\ config.StatusCode = 0
               THEN [config EXCEPT !.StatusCode = resp[k].StatusCode] ELSE config)

\* a.responses after a.setResponseConfig(key, config)
setResponseConfig(resp, key, config) ==
    MapPut(resp, IF key = "" THEN "default" ELSE key, config)

\* a lookup that keeps what it resolved under the key it was asked for
getResponseConfigStore_Memoizes(resp, key) ==
    IF key \in DOMAIN resp THEN resp ELSE MapPut(resp, key, getResponseConfig(resp, key))

\* a.responses as getResponseConfig leaves it: a nil map is replaced by an
\* empty one, which holds the same keys, and the lookups store nothing
getResponseConfigStore(resp, key) == resp

\* a.getResponseConfig(key) called directly
GetResponseConfig(key) ==
    /\ mu = Free
    /\ ret' = [op |-> "getResponseConfig", key |-> key,
               res |-> getResponseConfig(responses, key)]
    /\ responses' = getResponseConfigStore(responses, key)
    /\ UNCHANGED <<events, lastID, history, rules, ruleLastID,
                   subscribers, chans, loop, req,
                   call, mu>>

\* a.setResponseConfig(key, config) called directly
SetResponseConfig(key, config) ==
    /\ mu = Free
    /\ responses' = setResponseConfig(responses, key, config)
    /\ ret' = [op |-> "setResponseConfig", key |-> key, config |-> config]
    /\ UNCHANGED <<events, lastID, history, rules, ruleLastID,
                   subscribers, chans, loop, req,
                   call, mu>>

NextConfig ==
    \/ \E k \in ConfigGetKeys : GetResponseConfig(k)
    \/ \E k \in ConfigSetKeys, c \in ConfigInputs : SetResponseConfig(k, c)

SpecConfig == Init /\ [][NextConfig]_vars

(***************************************************************************)
(* C4: getResponseConfig(key) always returns a config, resolved in this    *)
(* order: the config stored for key; else the config stored for "default"; *)
(* else the built-in response {"result":"ok"} with status 200.             *)
(***************************************************************************)
C4_FallbackChain ==
    ret.op = "getResponseConfig" =>
        /\ ret.key \in DOMAIN responses => ret.res = responses[ret.key]
        /\ (ret.key \notin DOMAIN responses /\ "default" \in DOMAIN responses)
              => ret.res = responses["default"]
        /\ (ret.key \notin DOMAIN responses /\ "default" \notin DOMAIN responses)
              => /\ ret.res.Response = "{\"result\":\"ok\"}"
                 /\ ret.res.StatusCode = 200

\* an unconfigured key was resolved through a stored "default" config while
\* another key has a config of its own
C4_Witness ==
    /\ ret.op = "getResponseConfig"
    /\ ret.key = "beta"
    /\ DOMAIN responses = {"default", "alpha"}
    /\ responses["alpha"] # responses["default"]
    /\ ret.res = responses["default"]

(***************************************************************************)
(* C19: setResponseConfig(key, c) stores c under key, or under "default"   *)
(* when key is empty, in place of the whole previous config of that key    *)
(* (response, raw form and status code all come from c); the configs of    *)
(* all other keys stay as they were, and getResponseConfig of the same key *)
(* then returns c.                                                         *)
(***************************************************************************)
C19_SetStep(k, c) ==
    SetResponseConfig(k, c) =>
        LET key == IF k = "" THEN "default" ELSE k
        IN  /\ DOMAIN responses' = DOMAIN responses \cup {key}
            /\ responses'[key].Response = c.Response
            /\ responses'[key].ResponseRaw = c.ResponseRaw
            /\ responses'[key].StatusCode = c.StatusCode
            /\ \A k2 \in DOMAIN responses : k2 # key => responses'[k2] = responses[k2]
            /\ getResponseConfig(responses', k) = c

C19_SetReplacesWhole ==
    [][\A k \in ConfigSetKeys, c \in ConfigInputs : C19_SetStep(k, c)]_vars

\* a config was set under the empty key while "alpha" held a config that
\* differs from it in every field: it is stored under "default", nothing is
\* stored under the empty key
C19_Witness ==
    /\ ret.op = "setResponseConfig"
    /\ ret.key = ""
    /\ DOMAIN responses = {"default", "alpha"}
    /\ responses["default"] = ret.config
    /\ ret.config.StatusCode = 0
    /\ responses["alpha"].Response # ret.config.Response
    /\ responses["alpha"].ResponseRaw # ret.config.ResponseRaw
    /\ responses["alpha"].StatusCode # ret.config.StatusCode

(***************************************************************************)
(* RuleStore and RuleEvaluator                                             *)
(***************************************************************************)
\* fmt.Sprintf("rule_%d", n) for the IDs the model can reach
RuleIDStrings == <<"rule_1", "rule_2", "rule_3", "rule_4", "rule_5", "rule_6">>
RuleID(n) == RuleIDStrings[n]
RuleIDArgs == {RuleID(n) : n \in 1..MaxRuleIDs}

\* a.rules[key]: reading a key the map does not hold yields the nil slice
RulesOf(rs, key) == IF key \in DOMAIN rs THEN rs[key] ELSE <<>>

\* response values a caller may put in a rule
RuleResponses == {"rule_a", "rule_b"}
\* condition texts: always true, a comparison on a body field, and text that
\* does not compile
Conditions == {"true", "body.amount > 100", "this is not valid syntax !!!"}
Priorities == {1, 10}
\* a rule as a caller hands it to addRule or updateRule; ID is what the caller
\* put in the ID field ("" when it left the field out)
RuleInput(cond, resp, prio, enabled) ==
    [ID |-> "", Name |-> "rule", Condition |-> cond, Response |-> resp,
     StatusCode |-> 0, Priority |-> prio, Enabled |-> enabled]
\* the rules the rule-store specification draws from: enabled rules with a
\* condition that is always true or depends on the body, and disabled
\* always-true rules of the first priority
RuleInputs ==
    {RuleInput(c, r, p, TRUE) :
        c \in {"true", "body.amount > 100"}, r \in RuleResponses, p \in Priorities}
    \cup {RuleInput("true", r, 1, FALSE) : r \in RuleResponses}
\* updateRule reads its rule argument only when it finds the ID
UpdateInputs(key, ruleID) ==
    IF \E i \in 1..Len(RulesOf(rules, key)) : RulesOf(rules, key)[i].ID = ruleID
    THEN RuleInputs
    ELSE {RuleInput("true", "rule_a", 1, TRUE)}
\* the bodies it evaluates them on
EvalBodies == {"{\"amount\":150}", "{\"amount\":50}"}

\* expr.Compile(cond, expr.Env(env), expr.AsBool()) followed by expr.Run on the
\* environment built from the body: "true", "false", or "error" when either
\* call returns an error.  json.Unmarshal turns "" into a nil body and text
\* that is not JSON into a string; a field of neither can be read.
CondEval(cond, body) ==
    CASE cond = "true" -> "true"
      [] cond = "body.amount > 100" ->
            (CASE body = "{\"amount\":150}" -> "true"
               [] body = "{\"amount\":50}" -> "false"
               [] OTHER -> "error")
      [] OTHER -> "error"

IsSortedByPriority(seq) ==
    \A i \in 1..(Len(seq) - 1) : ~(seq[i + 1].Priority < seq[i].Priority)

\* the orders sort.Slice may leave seq in: sort.Slice is not stable, so rules of
\* equal priority may come out in either order
SortSlice(seq) ==
    LET n == Len(seq)
        perms == {f \in [1..n -> 1..n] : \A i, j \in 1..n : f[i] = f[j] => i = j}
    IN  {s \in {[i \in 1..n |-> seq[f[i]]] : f \in perms} : IsSortedByPriority(s)}

getRules_Unsorted(rs, key) == {RulesOf(rs, key)}

getRules_EnabledOnly(rs, key) ==
    SortSlice(SelectSeq(RulesOf(rs, key), LAMBDA r : r.Enabled))

\* what a.getRules(key) may return when a.rules is rs: a sorted copy
getRules(rs, key) == SortSlice(RulesOf(rs, key))

\* what evaluateRules returns for a rule that matched
RuleMatch(rule) ==
    [matched |-> TRUE, Response |-> rule.Response, StatusCode |-> rule.StatusCode]

RECURSIVE evaluateLoop_IgnoresEnabled(_, _, _)
evaluateLoop_IgnoresEnabled(sorted, body, i) ==
    IF i > Len(sorted) THEN [res |-> NoMatch, run |-> <<>>]
    ELSE LET rest == evaluateLoop_IgnoresEnabled(sorted, body, i + 1)
         IN  IF CondEval(sorted[i].Condition, body) = "true"
             THEN [res |-> RuleMatch(sorted[i]), run |-> <<sorted[i].ID>>]
             ELSE [res |-> rest.res, run |-> <<sorted[i].ID>> \o rest.run]

RECURSIVE evaluateLoop_StopsOnError(_, _, _)
evaluateLoop_StopsOnError(sorted, body, i) ==
    IF i > Len(sorted) THEN [res |-> NoMatch, run |-> <<>>]
    ELSE IF ~sorted[i].Enabled THEN evaluateLoop_StopsOnError(sorted, body, i + 1)
    ELSE LET rest == evaluateLoop_StopsOnError(sorted, body, i + 1)
             out == CondEval(sorted[i].Condition, body)
         IN  CASE out = "true" ->
                    [res |-> RuleMatch(sorted[i]), run |-> <<sorted[i].ID>>]
               [] out = "error" -> [res |-> NoMatch, run |-> <<sorted[i].ID>>]
               [] OTHER -> [res |-> rest.res, run |-> <<sorted[i].ID>> \o rest.run]

\* the loop of evaluateRules from rule i of the sorted rules on: a disabled rule
\* is passed over, an enabled rule has its condition compiled and run, and the
\* loop ends at the first condition that yields true.  res is what the loop
\* returns, run the IDs of the rules whose condition was compiled, in order.
RECURSIVE evaluateLoop(_, _, _)
evaluateLoop(sorted, body, i) ==
    IF i > Len(sorted) THEN [res |-> NoMatch, run |-> <<>>]
    ELSE IF ~sorted[i].Enabled THEN evaluateLoop(sorted, body, i + 1)
    ELSE LET rest == evaluateLoop(sorted, body, i + 1)
         IN  IF CondEval(sorted[i].Condition, body) = "true"
             THEN [res |-> RuleMatch(sorted[i]), run |-> <<sorted[i].ID>>]
             ELSE [res |-> rest.res, run |-> <<sorted[i].ID>> \o rest.run]

\* the *ResponseConfig evaluateRules returns
evaluateRules(sorted, body) == evaluateLoop(sorted, body, 1).res

\* the error evaluateRules returns: every return statement gives nil
evaluateRulesErr(sorted, body) == "nil"

\* index of the first rule of seq whose ID is id, 0 when there is none
IndexOfID(seq, id) ==
    LET at == {i \in 1..Len(seq) : seq[i].ID = id}
    IN  IF at = {} THEN 0 ELSE CHOOSE i \in at : \A j \in at : i <= j

RemoveAt_Truncate(seq, i) == SubSeq(seq, 1, i - 1)

\* append(seq[:i], seq[i+1:]...) for the rule at place i
RemoveAt(seq, i) == SubSeq(seq, 1, i - 1) \o SubSeq(seq, i + 1, Len(seq))

\* a.addRule(key, rule) called directly
AddRule(key, rule) ==
    /\ mu = Free
    /\ ruleLastID < MaxRuleIDs
    /\ LET stored == [rule EXCEPT !.ID = RuleID(ruleLastID + 1)]
       IN  /\ ruleLastID' = ruleLastID + 1
           /\ rules' = MapPut(rules, key, Append(RulesOf(rules, key), stored))
           /\ ret' = [op |-> "addRule", key |-> key, res |-> stored]
    /\ UNCHANGED <<events, lastID, history, responses, subscribers, chans, loop, req,
                   call, mu>>

\* the IDs of the rules stored for key
IDsOf(rs, key) == {RulesOf(rs, key)[i].ID : i \in 1..Len(RulesOf(rs, key))}

updateRule_KeepsGivenID(rs, key, ruleID, updated) ==
    LET i == IndexOfID(RulesOf(rs, key), ruleID)
    IN  IF i = 0 THEN [rules |-> rs, ok |-> FALSE]
        ELSE [rules |-> [rs EXCEPT ![key][i] = updated], ok |-> TRUE]

\* a.updateRule(key, ruleID, updated): the rule map afterwards and the result.
\* The first rule of the key with that ID is overwritten by updated, whose ID
\* field is set to ruleID first.
updateRule(rs, key, ruleID, updated) ==
    LET i == IndexOfID(RulesOf(rs, key), ruleID)
    IN  IF i = 0 THEN [rules |-> rs, ok |-> FALSE]
        ELSE [rules |-> [rs EXCEPT ![key][i] = [updated EXCEPT !.ID = ruleID]],
              ok |-> TRUE]

deleteRule_AnyKey(rs, key, ruleID) ==
    LET at == {k \in DOMAIN rs : IndexOfID(rs[k], ruleID) # 0}
    IN  IF at = {} THEN [rules |-> rs, ok |-> FALSE]
        ELSE LET k == IF key \in at THEN key ELSE CHOOSE x \in at : TRUE
             IN  [rules |-> [rs EXCEPT ![k] = RemoveAt(rs[k], IndexOfID(rs[k], ruleID))],
                  ok |-> TRUE]

\* a.deleteRule(key, ruleID): the rule map afterwards and the result.  The
\* first rule of the key with that ID is cut out by
\* append(rules[:i], rules[i+1:]...), the rules behind it moving up one place.
deleteRule(rs, key, ruleID) ==
    LET i == IndexOfID(RulesOf(rs, key), ruleID)
    IN  IF i = 0 THEN [rules |-> rs, ok |-> FALSE]
        ELSE [rules |-> [rs EXCEPT ![key] = RemoveAt(rs[key], i)], ok |-> TRUE]

\* a.updateRule(key, ruleID, updated) called directly
UpdateRule(key, ruleID, updated) ==
    /\ mu = Free
    /\ LET out == updateRule(rules, key, ruleID, updated)
       IN  /\ rules' = out.rules
           /\ ret' = [op |-> "updateRule", res |-> out.ok]
    /\ UNCHANGED <<events, lastID, history, responses, ruleLastID,
                   subscribers, chans, loop, req,
                   call, mu>>

\* a.deleteRule(key, ruleID) called directly
DeleteRule(key, ruleID) ==
    /\ mu = Free
    /\ LET out == deleteRule(rules, key, ruleID)
       IN  /\ rules' = out.rules
           /\ ret' = [op |-> "deleteRule", res |-> out.ok]
    /\ UNCHANGED <<events, lastID, history, responses, ruleLastID,
                   subscribers, chans, loop, req,
                   call, mu>>

\* a.evaluateRules(key, body, method, headers) called directly
EvaluateRules(key, body) ==
    /\ mu = Free
    /\ \E sorted \in getRules(rules, key) :
          ret' = [op |-> "evaluateRules", key |-> key, body |-> body,
                  res |-> evaluateRules(sorted, body),
                  err |-> evaluateRulesErr(sorted, body),
                  run |-> evaluateLoop(sorted, body, 1).run]
    /\ UNCHANGED <<events, lastID, history, responses, rules, ruleLastID,
                   subscribers, chans, loop, req,
                   call, mu>>

NextRules ==
    \/ \E k \in Keys, r \in RuleInputs : ruleLastID < MaxEvalRules /\ AddRule(k, r)
    \/ \E k \in Keys, id \in RuleIDArgs :
          \E r \in UpdateInputs(k, id) : UpdateRule(k, id, r)
    \/ \E k \in Keys, id \in RuleIDArgs : DeleteRule(k, id)
    \/ \E k \in Keys, b \in Bodies : EvaluateRules(k, b)

SpecRules == Init /\ [][NextRules]_vars

(***************************************************************************)
(* C2: when some enabled rule of the key has a condition that is true on   *)
(* the context, evaluateRules returns the response and status code of such *)
(* a rule of smallest priority value, whatever the order in which the      *)
(* rules were added or updated; with always-true rules of priority 10 and  *)
(* 1 the priority-1 rule's response comes back.                            *)
(***************************************************************************)
C2_SmallestPriorityWins ==
    ret.op = "evaluateRules" =>
        LET rs == RulesOf(rules, ret.key)
            M == {i \in 1..Len(rs) :
                     rs[i].Enabled /\ CondEval(rs[i].Condition, ret.body) = "true"}
        IN  M # {} =>
              /\ ret.res.matched
              /\ \E i \in M :
                    /\ \A j \in M : rs[i].Priority <= rs[j].Priority
                    /\ ret.res.Response = rs[i].Response
                    /\ ret.res.StatusCode = rs[i].StatusCode

\* two enabled always-true rules, priority 10 stored before priority 1, with
\* different responses: the priority-1 response was returned
C2_Witness ==
    /\ ret.op = "evaluateRules"
    /\ LET rs == RulesOf(rules, ret.key)
       IN  /\ Len(rs) = 2
           /\ rs[1].Priority = 10 /\ rs[2].Priority = 1
           /\ rs[1].Enabled /\ rs[2].Enabled
           /\ rs[1].Condition = "true" /\ rs[2].Condition = "true"
           /\ rs[1].Response # rs[2].Response
           /\ ret.res.matched
           /\ ret.res.Response = rs[2].Response

(***************************************************************************)
(* Rule evaluation over disabled rules and failing conditions              *)
(***************************************************************************)
\* response of a rule that is stored disabled
DisabledResponse == "rule_off"
\* the rules the evaluation specification draws from: every condition text,
\* enabled and disabled, at both priorities.  An enabled rule answers
\* "rule_a" at priority 1 and "rule_b" at priority 10, a disabled rule
\* answers DisabledResponse.
EvalRuleInputs ==
    {RuleInput(c, IF p = 1 THEN "rule_a" ELSE "rule_b", p, TRUE) :
        c \in Conditions, p \in Priorities}
    \cup {RuleInput(c, DisabledResponse, p, FALSE) :
        c \in Conditions, p \in Priorities}

NextEval ==
    \/ \E k \in Keys, r \in EvalRuleInputs :
          ruleLastID < MaxEvalRules /\ AddRule(k, r)
    \/ \E k \in Keys, b \in Bodies : EvaluateRules(k, b)

SpecEval == Init /\ [][NextEval]_vars

\* the elements of a sequence
Range(seq) == {seq[i] : i \in 1..Len(seq)}

(***************************************************************************)
(* C11: a disabled rule never determines a response.  On every body and    *)
(* for every condition, the always-true one included, evaluateRules does   *)
(* not compile a disabled rule's condition; a match is always the response *)
(* of an enabled rule whose condition is true; a rule set made only of     *)
(* disabled rules gives no match.                                          *)
(***************************************************************************)
C11_DisabledNeverMatches ==
    ret.op = "evaluateRules" =>
        LET rs == RulesOf(rules, ret.key)
        IN  /\ \A i \in 1..Len(rs) : ~rs[i].Enabled => rs[i].ID \notin Range(ret.run)
            /\ ret.res.matched =>
                  \E i \in 1..Len(rs) :
                      /\ rs[i].Enabled
                      /\ CondEval(rs[i].Condition, ret.body) = "true"
                      /\ ret.res.Response = rs[i].Response
                      /\ ret.res.StatusCode = rs[i].StatusCode
            /\ (\A i \in 1..Len(rs) : ~rs[i].Enabled) => ret.res = NoMatch

\* a disabled always-true rule of priority 1 stands before an enabled
\* always-true rule of priority 10: the enabled rule's response came back and
\* only its condition was compiled
C11_Witness ==
    /\ ret.op = "evaluateRules"
    /\ LET rs == RulesOf(rules, ret.key)
       IN  /\ Len(rs) = 2
           /\ ~rs[1].Enabled /\ rs[1].Condition = "true" /\ rs[1].Priority = 1
           /\ rs[2].Enabled /\ rs[2].Condition = "true" /\ rs[2].Priority = 10
           /\ ret.res.matched
           /\ ret.res.Response = rs[2].Response
           /\ ret.res.Response # rs[1].Response
           /\ ret.run = <<rs[2].ID>>

(***************************************************************************)
(* C12: an enabled rule whose condition does not compile or fails when run *)
(* counts as a non-match.  evaluateRules returns a nil error and goes on   *)
(* to the next rule in priority order: when some enabled rule's condition  *)
(* is true the result is the response of such a rule of smallest priority, *)
(* and when none is the result is no match.                                *)
(***************************************************************************)
C12_FailingConditionSkipped ==
    ret.op = "evaluateRules" =>
        LET rs == RulesOf(rules, ret.key)
            M == {i \in 1..Len(rs) :
                     rs[i].Enabled /\ CondEval(rs[i].Condition, ret.body) = "true"}
        IN  /\ ret.err = "nil"
            /\ M = {} => ret.res = NoMatch
            /\ M # {} =>
                  /\ ret.res.matched
                  /\ \E i \in M :
                        /\ \A j \in M : rs[i].Priority <= rs[j].Priority
                        /\ ret.res.Response = rs[i].Response
                        /\ ret.res.StatusCode = rs[i].StatusCode
            /\ \A i \in 1..Len(rs) :
                  (rs[i].Enabled /\ CondEval(rs[i].Condition, ret.body) = "error"
                     /\ \A j \in M : rs[i].Priority < rs[j].Priority)
                  => rs[i].ID \in Range(ret.run)

\* an enabled rule of priority 1 whose condition failed (it does not compile,
\* or it reads a field of a body that has none) stands before an enabled
\* always-true rule of priority 10: both conditions were tried and the second
\* rule's response came back
C12_Witness ==
    /\ ret.op = "evaluateRules"
    /\ LET rs == RulesOf(rules, ret.key)
       IN  /\ Len(rs) = 2
           /\ rs[1].Enabled /\ rs[1].Priority = 1
           /\ rs[1].Condition = "this is not valid syntax !!!"
           /\ rs[2].Enabled /\ rs[2].Priority = 10 /\ rs[2].Condition = "true"
           /\ ret.run = <<rs[1].ID, rs[2].ID>>
           /\ ret.res.matched
           /\ ret.res.Response = rs[2].Response
           /\ ret.err = "nil"

(***************************************************************************)
(* Key discovery                                                           *)
(***************************************************************************)
\* every key text of the model in ascending byte order, the order of
\* sort.Strings
KeyOrder == <<"", "alpha", "beta", "default", "gamma">>

\* sort.Strings over the keys of keySet: a map holds each key once
sortStrings(keySet) == SelectSeq(KeyOrder, LAMBDA k : k \in keySet)

getKeys_NoRuleKeys(evs, resp, rs) ==
    sortStrings({evs[i].Key : i \in 1..Len(evs)} \cup DOMAIN resp \cup {"default"})

\* what a.getKeys() returns when the log is evs, a.responses is resp and
\* a.rules is rs
getKeys(evs, resp, rs) ==
    sortStrings({evs[i].Key : i \in 1..Len(evs)} \cup DOMAIN resp \cup DOMAIN rs
                \cup {"default"})

\* a.getKeys() called directly
GetKeys ==
    /\ mu = Free
    /\ ret' = [op |-> "getKeys", res |-> getKeys(events, responses, rules)]
    /\ UNCHANGED <<events, lastID, history, responses, rules, ruleLastID,
                   subscribers, chans, loop, req,
                   call, mu>>

(***************************************************************************)
(* RuleStore: create, update, delete and list                              *)
(***************************************************************************)
\* a.getRules(key) called directly
GetRules(key) ==
    /\ mu = Free
    /\ \E sorted \in getRules(rules, key) :
          ret' = [op |-> "getRules", key |-> key, res |-> sorted]
    /\ UNCHANGED <<events, lastID, history, responses, rules, ruleLastID,
                   subscribers, chans, loop, req,
                   call, mu>>

\* the rules the rule-store specification draws from: two rules that differ
\* in every field but the ID, which the caller left empty
StoreRuleInputs ==
    {[ID |-> "", Name |-> "first", Condition |-> "true", Response |-> "rule_a",
      StatusCode |-> 0, Priority |-> 10, Enabled |-> TRUE],
     [ID |-> "", Name |-> "second", Condition |-> "body.amount > 100",
      Response |-> "rule_b", StatusCode |-> 404, Priority |-> 1, Enabled |-> FALSE]}
\* the rule arguments of updateRule: the same rules, with the ID field empty,
\* holding an ID the store handed out, or holding an ID of the caller's making
StoreUpdateInputs ==
    StoreRuleInputs
    \cup {[r EXCEPT !.ID = id] : r \in {x \in StoreRuleInputs : x.Name = "second"},
                                id \in {"rule_1", "r9"}}

NextRuleStore ==
    \/ \E k \in Keys, r \in StoreRuleInputs : AddRule(k, r)
    \/ \E k \in Keys, id \in RuleIDArgs, r \in StoreUpdateInputs : UpdateRule(k, id, r)
    \/ \E k \in Keys, id \in RuleIDArgs : DeleteRule(k, id)
    \/ \E k \in Keys : GetRules(k)

SpecRuleStore == Init /\ [][NextRuleStore]_vars

(***************************************************************************)
(* C13: updateRule and deleteRule with an ID that no rule of the key has   *)
(* (an ID that exists only under another key and a key without rules       *)
(* included) return false and leave the rules of every key, the rule ID    *)
(* counter and the keys getKeys reports unchanged.                         *)
(***************************************************************************)
C13_NotFoundStep(k, id) ==
    (/\ id \notin IDsOf(rules, k)
     /\ \/ \E r \in StoreUpdateInputs : UpdateRule(k, id, r)
        \/ DeleteRule(k, id))
    => /\ ret'.res = FALSE
       /\ rules' = rules
       /\ ruleLastID' = ruleLastID
       /\ getKeys(events', responses', rules') = getKeys(events, responses, rules)

C13_NotFoundChangesNothing ==
    [][\A k \in Keys, id \in RuleIDArgs : C13_NotFoundStep(k, id)]_vars

\* a delete was refused for a key without rules although the other key holds
\* a rule with the ID asked for
C13_Witness ==
    /\ ret.op = "deleteRule"
    /\ ret.res = FALSE
    /\ "alpha" \notin DOMAIN rules
    /\ ruleLastID = 1
    /\ IDsOf(rules, "default") = {"rule_1"}

(***************************************************************************)
(* C15: a successful updateRule(key, id, r) gives the rule with that id    *)
(* the name, condition, response, status code, priority and enabled flag   *)
(* of r and keeps its ID equal to id, also when r carries another ID; the  *)
(* number of rules of the key, every other rule of the key and the rules   *)
(* of every other key stay as they were.                                   *)
(***************************************************************************)
C15_UpdateStep(k, id, r) ==
    (id \in IDsOf(rules, k) /\ UpdateRule(k, id, r)) =>
        LET old == RulesOf(rules, k)
            new == RulesOf(rules', k)
        IN  /\ ret'.res = TRUE
            /\ Len(new) = Len(old)
            /\ \E i \in 1..Len(old) :
                  /\ old[i].ID = id
                  /\ new[i].ID = id
                  /\ new[i].Name = r.Name
                  /\ new[i].Condition = r.Condition
                  /\ new[i].Response = r.Response
                  /\ new[i].StatusCode = r.StatusCode
                  /\ new[i].Priority = r.Priority
                  /\ new[i].Enabled = r.Enabled
                  /\ \A j \in 1..Len(old) : j # i => new[j] = old[j]
            /\ DOMAIN rules' = DOMAIN rules
            /\ \A k2 \in DOMAIN rules : k2 # k => rules'[k2] = rules[k2]

C15_UpdateReplacesAllButID ==
    [][\A k \in Keys, id \in RuleIDArgs, r \in StoreUpdateInputs :
          C15_UpdateStep(k, id, r)]_vars

\* the second of two rules of a key was updated with a rule that carried the
\* first rule's ID: it took over every field but kept its own ID, and the
\* first rule and the other key's rule are as they were added
C15_Witness ==
    /\ ret.op = "updateRule"
    /\ ret.res = TRUE
    /\ Len(RulesOf(rules, "alpha")) = 2
    /\ Len(RulesOf(rules, "default")) = 1
    /\ rules["alpha"][1].ID = "rule_1" /\ rules["alpha"][1].Name = "first"
    /\ rules["alpha"][2].ID = "rule_3" /\ rules["alpha"][2].Name = "second"
    /\ rules["default"][1].ID = "rule_2" /\ rules["default"][1].Name = "first"

(***************************************************************************)
(* C16: a successful deleteRule(key, id) returns true and removes exactly  *)
(* the rule with that id from the key's rules: every other rule of the key *)
(* is still there with the same fields and in the same relative order, and *)
(* the rules of every other key stay as they were.                         *)
(***************************************************************************)
C16_DeleteStep(k, id) ==
    (id \in IDsOf(rules, k) /\ DeleteRule(k, id)) =>
        LET old == RulesOf(rules, k)
            new == RulesOf(rules', k)
        IN  /\ ret'.res = TRUE
            /\ Len(new) = Len(old) - 1
            /\ \E i \in 1..Len(old) :
                  /\ old[i].ID = id
                  /\ \A j \in 1..(i - 1) : new[j] = old[j]
                  /\ \A j \in i..Len(new) : new[j] = old[j + 1]
            /\ id \notin IDsOf(rules', k)
            /\ DOMAIN rules' = DOMAIN rules
            /\ \A k2 \in DOMAIN rules : k2 # k => rules'[k2] = rules[k2]

C16_DeleteRemovesExactlyOne ==
    [][\A k \in Keys, id \in RuleIDArgs : C16_DeleteStep(k, id)]_vars

\* the first of three rules of a key was deleted: the other two are left, in
\* the order in which they were added
C16_Witness ==
    /\ ret.op = "deleteRule"
    /\ ret.res = TRUE
    /\ ruleLastID = 3
    /\ Len(RulesOf(rules, "alpha")) = 2
    /\ rules["alpha"][1].ID = "rule_2"
    /\ rules["alpha"][2].ID = "rule_3"
    /\ rules["alpha"][1] # [rules["alpha"][2] EXCEPT !.ID = "rule_2"]

(***************************************************************************)
(* C17: getRules(key) returns exactly the rules stored for key, each as    *)
(* often as it is stored, in non-decreasing priority order whatever the    *)
(* order they were added in; for a key without rules it returns the empty  *)
(* sequence; what it returns is a copy, so the stored rules and their      *)
(* stored order are the same after the call.                               *)
(***************************************************************************)
C17_Listed ==
    ret.op = "getRules" =>
        LET rs == RulesOf(rules, ret.key)
            n == Len(rs)
        IN  /\ Len(ret.res) = n
            /\ \E f \in [1..n -> 1..n] :
                  /\ \A i, j \in 1..n : f[i] = f[j] => i = j
                  /\ \A i \in 1..n : ret.res[i] = rs[f[i]]
            /\ \A i \in 1..(n - 1) : ret.res[i].Priority <= ret.res[i + 1].Priority
            /\ n = 0 => ret.res = <<>>

C17_GetRulesSortedCopy ==
    /\ []C17_Listed
    /\ [][\A k \in Keys : GetRules(k) => rules' = rules]_vars

\* a key holds a rule of priority 10 stored before a rule of priority 1: the
\* list came back with the priority-1 rule first, and the stored order is
\* still the order of creation
C17_Witness ==
    /\ ret.op = "getRules"
    /\ ret.key = "alpha"
    /\ Len(RulesOf(rules, "alpha")) = 2
    /\ rules["alpha"][1].Priority = 10 /\ rules["alpha"][2].Priority = 1
    /\ ret.res = <<rules["alpha"][2], rules["alpha"][1]>>

(***************************************************************************)
(* RuleStore: wholesale replace                                            *)
(***************************************************************************)
\* a.rules after a.setRules(key, newRules): the list is stored as given, IDs
\* included
setRules(rs, key, newRules) == MapPut(rs, key, newRules)

\* a.setRules(key, newRules) called directly; the caller does not touch the
\* slice afterwards
SetRules(key, newRules) ==
    /\ mu = Free
    /\ rules' = setRules(rules, key, newRules)
    /\ ret' = [op |-> "setRules", key |-> key]
    /\ UNCHANGED <<events, lastID, history, responses, ruleLastID,
                   subscribers, chans, loop, req,
                   call, mu>>

\* the rules of an imported list: their IDs are the caller's, here an ID of
\* the caller's making and an ID in the form addRule hands out
ImportedRules ==
    {[ID |-> id, Name |-> "imported", Condition |-> "true", Response |-> "rule_a",
      StatusCode |-> 0, Priority |-> 1, Enabled |-> TRUE] : id \in {"r1", "rule_1"}}
\* the lists handed to setRules: every list of at most MaxSetRules of them
SetRulesInputs ==
    UNION {[1..n -> ImportedRules] : n \in 0..MaxSetRules}

\* the rule the replace specification creates, and the one it updates with
CreatedRule == CHOOSE r \in StoreRuleInputs : r.Name = "first"
UpdatedRule == CHOOSE r \in StoreRuleInputs : r.Name = "second"
\* the IDs it asks updateRule and deleteRule for
ReplaceIDArgs == {"rule_1", "r1"}

NextReplace ==
    \/ \E k \in Keys : ruleLastID < MaxEvalRules /\ AddRule(k, CreatedRule)
    \/ \E k \in Keys, id \in ReplaceIDArgs : UpdateRule(k, id, UpdatedRule)
    \/ \E k \in Keys, id \in ReplaceIDArgs : DeleteRule(k, id)
    \/ \E k \in Keys, rs \in SetRulesInputs : SetRules(k, rs)

SpecReplace == Init /\ [][NextReplace]_vars

(***************************************************************************)
(* C14: after any sequence of addRule, updateRule, deleteRule and setRules *)
(* calls no two stored rules, of one key or of two, have the same ID, and  *)
(* addRule never hands out an ID it has handed out before (the IDs handed  *)
(* out so far are rule_1 .. rule_n for the counter value n), also after    *)
(* the rule that carried it was deleted.                                   *)
(***************************************************************************)
C14_StoredIDsDistinct ==
    \A k1, k2 \in DOMAIN rules :
        \A i \in 1..Len(rules[k1]), j \in 1..Len(rules[k2]) :
            rules[k1][i].ID = rules[k2][j].ID => (k1 = k2 /\ i = j)

C14_AddStep ==
    \A k \in Keys :
        AddRule(k, CreatedRule) =>
            /\ ret'.res.ID \notin {RuleID(n) : n \in 1..ruleLastID}
            /\ ret'.res.ID = RuleID(ruleLastID')

C14_RuleIDsUnique ==
    /\ []C14_StoredIDsDistinct
    /\ [][C14_AddStep /\ ruleLastID' >= ruleLastID]_vars

(***************************************************************************)
(* Key discovery over events, configs and rules                            *)
(***************************************************************************)
\* the config the key specification sets
KeysConfig == [Response |-> "resp_a", ResponseRaw |-> "raw", StatusCode |-> 0]

\* events arrive for "beta" (as the first event, if at all) and "default",
\* configs are set for "alpha" and the empty key, rules are created and
\* deleted for "gamma"
NextKeys ==
    \/ lastID = 0 /\ StoreEvent("beta", "POST", "")
    \/ StoreEvent("default", "POST", "")
    \/ \E k \in {"alpha", ""} : SetResponseConfig(k, KeysConfig)
    \/ ruleLastID < MaxEvalRules /\ AddRule("gamma", CreatedRule)
    \/ DeleteRule("gamma", "rule_1")
    \/ GetKeys

SpecKeys == Init /\ [][NextKeys]_vars

\* the first byte of each key text; the key texts of the model differ in it
FirstByte == [alpha |-> 97, beta |-> 98, default |-> 100, gamma |-> 103]

(***************************************************************************)
(* C18: getKeys returns, in ascending order and each key once, exactly the *)
(* keys of the events now in the log, the keys that have a response        *)
(* config, the keys present in the rule map, and "default"; on a fresh     *)
(* store it returns exactly <<"default">>.                                 *)
(***************************************************************************)
C18_KeysAreTheUnion ==
    ret.op = "getKeys" =>
        LET U == {events[i].Key : i \in 1..Len(events)} \cup DOMAIN responses
                 \cup DOMAIN rules \cup {"default"}
            n == Len(ret.res)
        IN  /\ {ret.res[i] : i \in 1..n} = U
            /\ \A i, j \in 1..n : i < j => FirstByte[ret.res[i]] < FirstByte[ret.res[j]]
            /\ (events = <<>> /\ DOMAIN responses = {} /\ DOMAIN rules = {})
                  => ret.res = <<"default">>

\* a config was set for "alpha", an event stored for "beta" and a rule added
\* for "gamma": the four keys came back in ascending order
C18_Witness ==
    /\ ret.op = "getKeys"
    /\ ret.res = <<"alpha", "beta", "default", "gamma">>
    /\ DOMAIN responses = {"alpha"}
    /\ DOMAIN rules = {"gamma"}
    /\ \E i \in 1..Len(events) : events[i].Key = "beta"

(***************************************************************************)
(* SubscriberHub                                                           *)
(***************************************************************************)
\* make(chan Event, 1): an open channel with an empty buffer.  closes counts
\* the close calls made on the channel (a second one panics in Go) and by
\* names the operation that closed it.
NewChan == [buf |-> <<>>, closed |-> FALSE, closes |-> 0, by |-> "none"]

\* close(ch)
closeChan(c, who) ==
    [c EXCEPT !.closed = TRUE, !.closes = @ + 1, !.by = who]

trySend_Queue(c, event) == [c EXCEPT !.buf = Append(@, event)]

\* select { case ch <- event: default: }: the send happens when the buffer has
\* room and is given up at once when it has none
trySend(c, event) ==
    IF Len(c.buf) < ChanCap THEN [c EXCEPT !.buf = Append(@, event)] ELSE c

\* the events a caller hands to broadcastEvent directly
BroadcastInputs == {NewEvent(id, "default", "POST", "") : id \in 1..2}

\* a registration that hands the new channel the latest event of the log
addSubscriber_Replays ==
    /\ chans' = Append(chans, IF events = <<>> THEN NewChan
                               ELSE trySend(NewChan, events[Len(events)]))
    /\ subscribers' = subscribers \cup {Len(chans) + 1}

\* a.addSubscriber(): registers a channel made on the spot
addSubscriber ==
    /\ chans' = Append(chans, NewChan)
    /\ subscribers' = subscribers \cup {Len(chans) + 1}

removeSubscriber_KeepsOpen(ch) ==
    /\ subscribers' = subscribers \ {ch}
    /\ UNCHANGED chans

removeSubscriber_KeepsEntry(ch) ==
    IF ch \notin subscribers
    THEN UNCHANGED <<subscribers, chans>>
    ELSE /\ chans' = [chans EXCEPT ![ch] = closeChan(@, "removeSubscriber")]
         /\ UNCHANGED subscribers

removeSubscriber_NoCheck(ch) ==
    /\ subscribers' = subscribers \ {ch}
    /\ chans' = [chans EXCEPT ![ch] = closeChan(@, "removeSubscriber")]

\* a.removeSubscriber(ch)
removeSubscriber(ch) ==
    IF ch \notin subscribers
    THEN UNCHANGED <<subscribers, chans>>
    ELSE /\ subscribers' = subscribers \ {ch}
         /\ chans' = [chans EXCEPT ![ch] = closeChan(@, "removeSubscriber")]

broadcastEvent_Blocking(event) ==
    /\ \A ch \in subscribers : Len(chans[ch].buf) < ChanCap
    /\ chans' = [ch \in DOMAIN chans |->
                    IF ch \in subscribers THEN trySend(chans[ch], event) ELSE chans[ch]]
    /\ UNCHANGED subscribers

\* a.broadcastEvent(event)
broadcastEvent(event) ==
    /\ chans' = [ch \in DOMAIN chans |->
                    IF ch \in subscribers THEN trySend(chans[ch], event) ELSE chans[ch]]
    /\ UNCHANGED subscribers

closeSubscribers_KeepRegistry ==
    /\ chans' = [ch \in DOMAIN chans |->
                    IF ch \in subscribers
                    THEN closeChan(chans[ch], "closeSubscribers") ELSE chans[ch]]
    /\ UNCHANGED subscribers

\* a.closeSubscribers()
closeSubscribers ==
    /\ chans' = [ch \in DOMAIN chans |->
                    IF ch \in subscribers
                    THEN closeChan(chans[ch], "closeSubscribers") ELSE chans[ch]]
    /\ subscribers' = {}

\* a.addSubscriber() called directly
AddSubscriber ==
    /\ mu = Free
    /\ Len(chans) < MaxChans
    /\ addSubscriber
    /\ ret' = [op |-> "addSubscriber", ch |-> Len(chans) + 1]
    /\ UNCHANGED <<events, lastID, history, responses, rules, ruleLastID, loop, req,
                   call, mu>>

\* a caller's own make(chan Event): a channel the registry never held
MakeChan ==
    /\ Len(chans) < MaxChans
    /\ chans' = Append(chans, NewChan)
    /\ ret' = [op |-> "make", ch |-> Len(chans) + 1]
    /\ UNCHANGED <<events, lastID, history, responses, rules, ruleLastID,
                   subscribers, loop, req,
                   call, mu>>

\* a.removeSubscriber(ch) called directly; found is the ok of the registry lookup
RemoveSubscriber(ch) ==
    /\ mu = Free
    /\ removeSubscriber(ch)
    /\ ret' = [op |-> "removeSubscriber", ch |-> ch, found |-> ch \in subscribers]
    /\ UNCHANGED <<events, lastID, history, responses, rules, ruleLastID, loop, req,
                   call, mu>>

\* a.broadcastEvent(event) called directly
BroadcastEvent(event) ==
    /\ mu = Free
    /\ broadcastEvent(event)
    /\ ret' = [op |-> "broadcastEvent", event |-> event]
    /\ UNCHANGED <<events, lastID, history, responses, rules, ruleLastID, loop, req,
                   call, mu>>

\* a.closeSubscribers() called directly
CloseSubscribers ==
    /\ mu = Free
    /\ closeSubscribers
    /\ ret' = [op |-> "closeSubscribers"]
    /\ UNCHANGED <<events, lastID, history, responses, rules, ruleLastID, loop, req,
                   call, mu>>

\* event, ok := <-ch by the holder of an open channel with a pending event
Receive(ch) ==
    /\ chans[ch].buf # <<>>
    /\ chans' = [chans EXCEPT ![ch].buf = Tail(@)]
    /\ ret' = [op |-> "receive", ch |-> ch, event |-> Head(chans[ch].buf)]
    /\ UNCHANGED <<events, lastID, history, responses, rules, ruleLastID,
                   subscribers, loop, req,
                   call, mu>>

NextHub ==
    \/ AddSubscriber
    \/ MakeChan
    \/ \E ch \in DOMAIN chans : RemoveSubscriber(ch)
    \/ \E e \in BroadcastInputs : BroadcastEvent(e)
    \/ CloseSubscribers
    \/ \E ch \in DOMAIN chans : Receive(ch)

SpecHub == Init /\ [][NextHub]_vars

(***************************************************************************)
(* C5: broadcastEvent(e) never waits: it can always be taken, and for each *)
(* registered subscriber on its own an empty buffer then holds e while a   *)
(* buffer holding an undelivered event keeps it and misses e; no buffer    *)
(* ever holds more than one event.                                         *)
(***************************************************************************)
C5_BroadcastStep ==
    ret'.op = "broadcastEvent" =>
        \A ch \in subscribers :
            /\ chans[ch].buf = <<>> => chans'[ch].buf = <<ret'.event>>
            /\ chans[ch].buf # <<>> => chans'[ch].buf = chans[ch].buf

C5_BroadcastNeverWaits ==
    /\ [](\A e \in BroadcastInputs : ENABLED BroadcastEvent(e))
    /\ [](\A ch \in DOMAIN chans : Len(chans[ch].buf) <= 1)
    /\ [][C5_BroadcastStep]_vars

\* a broadcast that met one full and one empty subscriber: the full one kept
\* its event, the empty one got the new event
C5_Witness ==
    /\ ret.op = "broadcastEvent"
    /\ \E c1, c2 \in subscribers :
          /\ chans[c1].buf = <<ret.event>>
          /\ Len(chans[c2].buf) = 1
          /\ chans[c2].buf[1] # ret.event

(***************************************************************************)
(* C7: removeSubscriber on a handle the registry does not hold (never      *)
(* registered, already removed, or closed by closeSubscribers) changes     *)
(* nothing and closes nothing; whatever the interleaving of removeSubscriber*)
(* and closeSubscribers calls, no channel is closed more than once.        *)
(***************************************************************************)
C7_RemoveAbsentStep ==
    (ret'.op = "removeSubscriber" /\ ret'.ch \notin subscribers) =>
        UNCHANGED <<events, lastID, responses, rules, ruleLastID, subscribers, chans>>

C7_RemoveIdempotent ==
    /\ [][C7_RemoveAbsentStep]_vars
    /\ [](\A ch \in DOMAIN chans : chans[ch].closes <= 1)

\* removeSubscriber was just called on a channel closeSubscribers had closed,
\* after another channel was removed and with a never-registered one around
C7_Witness ==
    /\ ret.op = "removeSubscriber"
    /\ ~ret.found
    /\ chans[ret.ch].by = "closeSubscribers"
    /\ chans[ret.ch].closes = 1
    /\ \E c \in DOMAIN chans : chans[c].by = "removeSubscriber" /\ chans[c].closes = 1
    /\ \E c \in DOMAIN chans : ~chans[c].closed /\ c \notin subscribers

(***************************************************************************)
(* C8: closeSubscribers closes every channel registered at the call and    *)
(* leaves the registry empty; afterwards addSubscriber registers a fresh   *)
(* open channel, and no broadcast puts an event into a closed channel.     *)
(***************************************************************************)
C8_CloseStep ==
    ret'.op = "closeSubscribers" =>
        /\ subscribers' = {}
        /\ \A ch \in subscribers : chans'[ch].closed

C8_AddStep ==
    ret'.op = "addSubscriber" =>
        /\ subscribers' = subscribers \cup {ret'.ch}
        /\ ret'.ch \notin DOMAIN chans
        /\ chans'[ret'.ch] = NewChan

C8_ClosedNotReached ==
    \A ch \in DOMAIN chans :
        chans[ch].closed =>
            /\ chans'[ch].closed
            /\ ch \notin subscribers'
            /\ Len(chans'[ch].buf) <= Len(chans[ch].buf)

C8_CloseAllClears ==
    [][C8_CloseStep /\ C8_AddStep /\ C8_ClosedNotReached]_vars

\* after closeSubscribers closed a channel, a subscriber added later received
\* a broadcast that the closed channel did not
C8_Witness ==
    /\ ret.op = "broadcastEvent"
    /\ \E c1, c2 \in DOMAIN chans :
          /\ chans[c1].by = "closeSubscribers"
          /\ chans[c1].buf = <<>>
          /\ c2 > c1
          /\ c2 \in subscribers
          /\ chans[c2].buf = <<ret.event>>

(***************************************************************************)
(* The webhook request path (webhookHandler)                               *)
(***************************************************************************)
\* w.WriteHeader(config.StatusCode) only when the code is not 0: the status
\* the client sees
statusSent(code) == IF code # 0 THEN code ELSE 200

\* event := a.storeEvent(r, key, string(body))
ReqStore(r, key, body) ==
    /\ mu = Free
    /\ req[r].pc = "idle"
    /\ LET event == NewEvent(lastID + 1, key, "POST", body)
       IN  /\ lastID' = lastID + 1
           /\ events' = storeEventLog(events, event)
           /\ history' = Append(history, event)
           /\ req' = [req EXCEPT ![r] =
                         [pc |-> "stored", key |-> key, body |-> body, event |-> event]]
    /\ UNCHANGED <<responses, rules, ruleLastID, subscribers, chans, loop, ret,
                   call, mu>>

\* ghost: the registered subscribers whose buffer has no room, which a
\* broadcast made now passes over
fullSubscribers ==
    Cardinality({ch \in subscribers : ~(Len(chans[ch].buf) < ChanCap)})

\* a.broadcastEvent(event)
ReqBroadcast(r) ==
    /\ mu = Free
    /\ req[r].pc = "stored"
    /\ broadcastEvent(req[r].event)
    /\ req' = [req EXCEPT ![r] =
                  [pc |-> "broadcast", key |-> req[r].key, body |-> req[r].body,
                   event |-> req[r].event, dropped |-> fullSubscribers]]
    /\ UNCHANGED <<events, lastID, history, responses, rules, ruleLastID, loop, ret,
                   call, mu>>

\* ruleConfig, _ := a.evaluateRules(key, string(body), r.Method, r.Header):
\* getRules under the lock, then the evaluation on the copy
ReqEvaluate(r) ==
    /\ mu = Free
    /\ req[r].pc = "broadcast"
    /\ \E sorted \in getRules(rules, req[r].key) :
          req' = [req EXCEPT ![r] =
                     [pc |-> "evaluated", key |-> req[r].key, body |-> req[r].body,
                      event |-> req[r].event, dropped |-> req[r].dropped,
                      ruleConfig |-> evaluateRules(sorted, req[r].body)]]
    /\ UNCHANGED <<events, lastID, history, responses, rules, ruleLastID,
                   subscribers, chans, loop, ret,
                   call, mu>>

webhookConfig_EmptyIsNoMatch(ruleConfig, resp, key) ==
    IF ruleConfig = NoMatch THEN getResponseConfig(resp, key)
    ELSE IF ruleConfig.Response = "null" /\ ruleConfig.StatusCode = 0
         THEN getResponseConfig(resp, key)
         ELSE [Response |-> ruleConfig.Response, ResponseRaw |-> "",
               StatusCode |-> ruleConfig.StatusCode]

webhookConfig_StatusFromStatic(ruleConfig, resp, key) ==
    IF ruleConfig # NoMatch
    THEN [Response |-> ruleConfig.Response, ResponseRaw |-> "",
          StatusCode |-> getResponseConfig(resp, key).StatusCode]
    ELSE getResponseConfig(resp, key)

webhookConfig_AlwaysStatic(ruleConfig, resp, key) == getResponseConfig(resp, key)

\* the config webhookHandler answers with: the rule's when evaluateRules
\* returned one, else a.getResponseConfig(key)
webhookConfig(ruleConfig, resp, key) ==
    IF ruleConfig # NoMatch
    THEN [Response |-> ruleConfig.Response, ResponseRaw |-> "",
          StatusCode |-> ruleConfig.StatusCode]
    ELSE getResponseConfig(resp, key)

\* the choice of the config and the write of status and body
ReqRespond(r) ==
    /\ req[r].pc = "evaluated"
    \* getResponseConfig is called, and a.mu taken, only when no rule matched
    /\ req[r].ruleConfig.matched \/ mu = Free
    /\ LET config == webhookConfig(req[r].ruleConfig, responses, req[r].key)
       IN  req' = [req EXCEPT ![r] =
                      [pc |-> "done", key |-> req[r].key, body |-> req[r].body,
                       event |-> req[r].event, dropped |-> req[r].dropped,
                       ruleConfig |-> req[r].ruleConfig,
                       response |-> config.Response,
                       status |-> statusSent(config.StatusCode)]]
    /\ responses' = IF req[r].ruleConfig # NoMatch THEN responses
                    ELSE getResponseConfigStore(responses, req[r].key)
    /\ UNCHANGED <<events, lastID, history, rules, ruleLastID,
                   subscribers, chans, loop, ret,
                   call, mu>>

ReqStep(r) == ReqBroadcast(r) \/ ReqEvaluate(r) \/ ReqRespond(r)

(***************************************************************************)
(* The streaming loop of one connection (eventsStreamLoop)                 *)
(***************************************************************************)
loopAfter_MarshalReturns(case) ==
    IF case \in {"ctx", "closed", "marshal_error"} THEN "exit" ELSE "select"

loopAfter_TickReturns(case) ==
    IF case \in {"ctx", "closed", "tick"} THEN "exit" ELSE "select"

loopAfter_IgnoresClose(case) ==
    IF case = "ctx" THEN "exit" ELSE "select"

\* where the loop goes after handling a select case: it returns on a done
\* context and on a closed channel, and goes round again after a tick, an
\* event written and an event that failed to serialize
loopAfter(case) ==
    IF case \in {"ctx", "closed"} THEN "exit" ELSE "select"

\* subscriber := a.addSubscriber()
LoopStart(l) ==
    /\ mu = Free
    /\ loop[l].pc = "init"
    /\ Len(chans) < MaxChans
    /\ addSubscriber
    /\ loop' = [loop EXCEPT ![l].pc = "select", ![l].sub = Len(chans) + 1]
    /\ UNCHANGED <<events, lastID, history, responses, rules, ruleLastID, req, ret,
                   call, mu>>

\* the request context of the connection is cancelled (the client went away)
CtxCancel(l) ==
    /\ loop[l].pc \in {"init", "select"}
    /\ ~loop[l].ctxDone
    /\ loop' = [loop EXCEPT ![l].ctxDone = TRUE]
    /\ UNCHANGED <<events, lastID, history, responses, rules, ruleLastID,
                   subscribers, chans, req, ret,
                   call, mu>>

\* case <-r.Context().Done(): return
LoopCtxDone(l) ==
    /\ loop[l].pc = "select"
    /\ loop[l].ctxDone
    /\ loop' = [loop EXCEPT ![l].pc = loopAfter("ctx"), ![l].last = "ctx"]
    /\ UNCHANGED <<events, lastID, history, responses, rules, ruleLastID,
                   subscribers, chans, req, ret,
                   call, mu>>

\* case <-ticks: write ": ping" and flush
LoopTick(l) ==
    /\ loop[l].pc = "select"
    /\ loop' = [loop EXCEPT ![l].pc = loopAfter("tick"), ![l].last = "tick"]
    /\ UNCHANGED <<events, lastID, history, responses, rules, ruleLastID,
                   subscribers, chans, req, ret,
                   call, mu>>

\* case event, ok := <-subscriber with ok true: the event is written as a data
\* frame unless json.Marshal fails
LoopRecv(l, marshalOK) ==
    /\ loop[l].pc = "select"
    /\ chans[loop[l].sub].buf # <<>>
    /\ chans' = [chans EXCEPT ![loop[l].sub].buf = Tail(@)]
    /\ LET event == Head(chans[loop[l].sub].buf)
       IN  IF marshalOK
           THEN loop' = [loop EXCEPT ![l].pc = loopAfter("event"), ![l].last = "event",
                                     ![l].out = Append(@, event.ID)]
           ELSE loop' = [loop EXCEPT ![l].pc = loopAfter("marshal_error"),
                                     ![l].last = "marshal_error"]
    /\ UNCHANGED <<events, lastID, history, responses, rules, ruleLastID,
                   subscribers, req, ret,
                   call, mu>>

\* case event, ok := <-subscriber with ok false: the channel is closed and
\* its buffer drained
LoopRecvClosed(l) ==
    /\ loop[l].pc = "select"
    /\ chans[loop[l].sub].buf = <<>>
    /\ chans[loop[l].sub].closed
    /\ loop' = [loop EXCEPT ![l].pc = loopAfter("closed"), ![l].last = "closed"]
    /\ UNCHANGED <<events, lastID, history, responses, rules, ruleLastID,
                   subscribers, chans, req, ret,
                   call, mu>>

\* defer a.removeSubscriber(subscriber), run as the loop returns
LoopReturn(l) ==
    /\ mu = Free
    /\ loop[l].pc = "exit"
    /\ removeSubscriber(loop[l].sub)
    /\ loop' = [loop EXCEPT ![l].pc = "returned"]
    /\ UNCHANGED <<events, lastID, history, responses, rules, ruleLastID, req, ret,
                   call, mu>>

LoopStep(l) ==
    \/ LoopCtxDone(l)
    \/ \E ok \in BOOLEAN : LoopRecv(l, ok)
    \/ LoopRecvClosed(l)
    \/ LoopReturn(l)

NextStream ==
    \/ \E l \in Loops : LoopStart(l)
    \/ \E l \in Loops : CtxCancel(l)
    \/ \E l \in Loops : LoopCtxDone(l)
    \/ \E l \in Loops : LoopTick(l)
    \/ \E l \in Loops, ok \in BOOLEAN : LoopRecv(l, ok)
    \/ \E l \in Loops : LoopRecvClosed(l)
    \/ \E l \in Loops : LoopReturn(l)
    \/ \E r \in Reqs : ReqStore(r, "default", "")
    \/ \E r \in Reqs : ReqBroadcast(r)
    \/ CloseSubscribers

\* the connections and the part of the webhook requests that feeds them; what a
\* request does after its broadcast touches neither registry nor channels
SpecStream == Init /\ [][NextStream]_vars

\* the Go scheduler runs every runnable goroutine, and a select whose case
\* stays ready takes it in the end; nothing is assumed of ticks, broadcasts,
\* cancellations or shutdown
FairSpecStream ==
    /\ SpecStream
    /\ \A l \in Loops :
          /\ WF_vars(LoopCtxDone(l))
          /\ WF_vars(\E ok \in BOOLEAN : LoopRecv(l, ok))
          /\ WF_vars(LoopRecvClosed(l))
          /\ WF_vars(LoopReturn(l))

(***************************************************************************)
(* C10: eventsStreamLoop leaves its loop only on a done request context or *)
(* on observing its channel closed; a heartbeat tick, an event written and *)
(* an event that failed to serialize all lead back to the select.          *)
(***************************************************************************)
C10_LoopStep ==
    \A l \in Loops :
        /\ (loop[l].pc = "select" /\ loop'[l].pc # "select") =>
              /\ loop'[l].pc = "exit"
              /\ \/ loop'[l].last = "ctx" /\ loop[l].ctxDone
                 \/ /\ loop'[l].last = "closed"
                    /\ chans[loop[l].sub].closed
                    /\ chans[loop[l].sub].buf = <<>>
        /\ (loop[l].pc = "select" /\ loop'[l] # loop[l]
              /\ loop'[l].last \in {"tick", "event", "marshal_error"})
              => loop'[l].pc = "select"
        /\ loop'[l].pc = "returned" => loop[l].pc \in {"exit", "returned"}

C10_ReturnsOnlyOnDoneOrClosed == [][C10_LoopStep]_vars

\* a loop that met an event that did not serialize is still in its select
C10_Witness ==
    \E l \in Loops :
        /\ loop[l].pc = "select"
        /\ loop[l].last = "marshal_error"
        /\ chans[loop[l].sub].buf = <<>>

(***************************************************************************)
(* C9: once its channel is closed or its request context is cancelled, a   *)
(* streaming loop eventually returns, with no further broadcast and no     *)
(* heartbeat tick needed.                                                  *)
(***************************************************************************)
C9_LoopEventuallyReturns ==
    \A l \in Loops :
        (loop[l].pc = "select" /\ (loop[l].ctxDone \/ chans[loop[l].sub].closed))
            ~> (loop[l].pc = "returned")

\* a loop returned after closeSubscribers closed its channel with an event
\* still buffered, its context never cancelled
C9_Witness ==
    \E l \in Loops :
        /\ loop[l].pc = "returned"
        /\ loop[l].last = "closed"
        /\ ~loop[l].ctxDone
        /\ loop[l].out # <<>>
        /\ chans[loop[l].sub].by = "closeSubscribers"

(***************************************************************************)
(* C29: once eventsStreamLoop has returned, on a cancelled context or on   *)
(* its channel closed by closeSubscribers, its subscriber channel is out   *)
(* of the registry and closed; and the registry never holds more channels  *)
(* than there are streaming loops running.                                 *)
(***************************************************************************)
\* the loops that have registered and not yet returned
C29_Running == {l \in Loops : loop[l].pc \in {"select", "exit"}}

C29_ReturnedLoopLeavesNothing ==
    /\ \A l \in Loops :
          loop[l].pc = "returned" =>
              /\ loop[l].sub \notin subscribers
              /\ chans[loop[l].sub].closed
              /\ loop[l].last \in {"ctx", "closed"}
    /\ Cardinality(subscribers) <= Cardinality(C29_Running)
    /\ \A ch \in subscribers : \E l \in C29_Running : loop[l].sub = ch

\* a loop returned on its cancelled context: its own deferred
\* removeSubscriber took the channel out of the registry and closed it
C29_Witness ==
    \E l \in Loops :
        /\ loop[l].pc = "returned"
        /\ loop[l].last = "ctx"
        /\ chans[loop[l].sub].by = "removeSubscriber"
        /\ loop[l].sub \notin subscribers

(***************************************************************************)
(* C30: every registered channel is open and every closed channel is out   *)
(* of the registry, so that a broadcast puts events only into open         *)
(* channels and no channel is closed a second time, however broadcasts,    *)
(* closeSubscribers and the loops with their deferred removeSubscriber     *)
(* interleave.                                                             *)
(***************************************************************************)
C30_BroadcastStep ==
    \A r \in Reqs :
        ReqBroadcast(r) =>
            /\ \A ch \in subscribers : ~chans[ch].closed
            /\ \A ch \in DOMAIN chans :
                  chans'[ch] # chans[ch] => (ch \in subscribers /\ ~chans[ch].closed)

C30_CloseStep ==
    \A ch \in DOMAIN chans :
        (chans'[ch].closes # chans[ch].closes) =>
            /\ ~chans[ch].closed
            /\ ch \in subscribers
            /\ ch \notin subscribers'

C30_RegistryHoldsOpenChannels ==
    /\ [](\A ch \in DOMAIN chans :
             /\ ch \in subscribers => ~chans[ch].closed
             /\ chans[ch].closed => ch \notin subscribers
             /\ chans[ch].closes <= 1)
    /\ [][C30_BroadcastStep /\ C30_CloseStep]_vars

\* closeSubscribers closed the channel of a loop, the loop has returned and
\* its deferred removeSubscriber found nothing to close, and a request has
\* stored its event and is about to broadcast it
C30_Witness ==
    \E l \in Loops, r \in Reqs :
        /\ loop[l].pc = "returned"
        /\ chans[loop[l].sub].by = "closeSubscribers"
        /\ chans[loop[l].sub].closes = 1
        /\ req[r].pc = "stored"

(***************************************************************************)
(* Webhook requests against changing rules and configs                     *)
(***************************************************************************)
\* the rules and configs the webhook specification draws from
WebhookRuleInputs ==
    {RuleInput("body.amount > 100", "rule_a", 1, TRUE),
     RuleInput("true", "rule_b", 10, TRUE)}
WebhookConfigs ==
    {[Response |-> "resp_a", ResponseRaw |-> "raw", StatusCode |-> 404],
     [Response |-> "resp_b", ResponseRaw |-> "raw", StatusCode |-> 0]}

NextWebhook ==
    \/ \E r \in Reqs, b \in EvalBodies : ReqStore(r, "alpha", b)
    \/ \E r \in Reqs : ReqBroadcast(r)
    \/ \E r \in Reqs : ReqEvaluate(r)
    \/ \E r \in Reqs : ReqRespond(r)
    \/ \E k \in Keys, rule \in WebhookRuleInputs :
          ruleLastID < MaxEvalRules /\ AddRule(k, rule)
    \/ \E k \in Keys, c \in WebhookConfigs : SetResponseConfig(k, c)

SpecWebhook == Init /\ [][NextWebhook]_vars

(***************************************************************************)
(* C3: a webhook request for key k answers with the first matching rule of *)
(* k whenever evaluateRules finds a match, and otherwise with exactly      *)
(* getResponseConfig(k) resolved through its fallback chain; the static    *)
(* config is never used when a rule of k matches, and no rule is used when *)
(* none of k matches.                                                      *)
(***************************************************************************)
C3_EvaluateStep(r) ==
    (req[r].pc = "broadcast" /\ req'[r].pc = "evaluated") =>
        LET rs == RulesOf(rules, req[r].key)
            M == {i \in 1..Len(rs) :
                     rs[i].Enabled /\ CondEval(rs[i].Condition, req[r].body) = "true"}
        IN  /\ M = {} <=> req'[r].ruleConfig = NoMatch
            /\ M # {} =>
                  \E i \in M :
                      /\ \A j \in M : rs[i].Priority <= rs[j].Priority
                      /\ req'[r].ruleConfig.Response = rs[i].Response
                      /\ req'[r].ruleConfig.StatusCode = rs[i].StatusCode

C3_RespondStep(r) ==
    (req[r].pc = "evaluated" /\ req'[r].pc = "done") =>
        LET k == req[r].key
            static == IF k \in DOMAIN responses THEN responses[k]
                      ELSE IF "default" \in DOMAIN responses THEN responses["default"]
                      ELSE [Response |-> "{\"result\":\"ok\"}", StatusCode |-> 200]
            used == IF req[r].ruleConfig # NoMatch THEN req[r].ruleConfig ELSE static
        IN  /\ req'[r].response = used.Response
            /\ req'[r].status = IF used.StatusCode = 0 THEN 200 ELSE used.StatusCode

C3_RuleElseStaticConfig ==
    [][\A r \in Reqs : C3_EvaluateStep(r) /\ C3_RespondStep(r)]_vars

\* a request for a key that has a static config of its own and whose rules
\* include a matching one was answered with the rule's response, while the
\* other key holds a rule as well
C3_Witness ==
    \E r \in Reqs :
        /\ req[r].pc = "done"
        /\ req[r].ruleConfig # NoMatch
        /\ req[r].response = "rule_a"
        /\ req[r].key \in DOMAIN responses
        /\ Len(RulesOf(rules, "default")) > 0

(***************************************************************************)
(* Webhook requests against subscribers that never drain                   *)
(***************************************************************************)
\* ch <- Event{ID: 0}: the event another producer fills a buffer with
FillerEvent == NewEvent(0, "default", "POST", "")

\* the connections attach and go away but never get to receive: no LoopRecv,
\* as with a client too slow to take what was written to it
NextWebhookHub ==
    \/ \E r \in Reqs : ReqStore(r, "default", "")
    \/ \E r \in Reqs : ReqBroadcast(r)
    \/ \E r \in Reqs : ReqEvaluate(r)
    \/ \E r \in Reqs : ReqRespond(r)
    \/ \E l \in Loops : LoopStart(l)
    \/ \E l \in Loops : CtxCancel(l)
    \/ \E l \in Loops : LoopCtxDone(l)
    \/ \E l \in Loops : LoopReturn(l)
    \/ BroadcastEvent(FillerEvent)
    \/ CloseSubscribers

SpecWebhookHub == Init /\ [][NextWebhookHub]_vars

\* the goroutine serving a request is scheduled whenever it can run; every
\* critical section on a.mu is finite, so the lock is always handed on
FairSpecWebhookHub ==
    /\ SpecWebhookHub
    /\ \A r \in Reqs : WF_vars(ReqStep(r))

(***************************************************************************)
(* C6: a webhook request that has stored its event runs to completion      *)
(* (broadcastEvent, evaluateRules, getResponseConfig, response) although   *)
(* no subscriber ever drains its channel and subscribers disconnect: no    *)
(* step of the request path waits for a subscriber.                        *)
(***************************************************************************)
C6_RequestCompletes ==
    \A r \in Reqs : (req[r].pc = "stored") ~> (req[r].pc = "done")

\* a request is done whose broadcast met a subscriber with a full buffer, and
\* that subscriber has since disconnected without ever receiving
C6_Witness ==
    \E r \in Reqs :
        /\ req[r].pc = "done"
        /\ req[r].dropped > 0
        /\ \E l \in Loops :
              /\ loop[l].pc = "returned"
              /\ chans[loop[l].sub].buf = <<FillerEvent>>

(***************************************************************************)
(* Concurrent callers: goroutines that call one operation at a time, with  *)
(* a.mu.Lock(), the statements of the body and the deferred a.mu.Unlock()  *)
(* as steps of their own                                                   *)
(***************************************************************************)
\* the fields of App that a.mu guards
State ==
    [events |-> events, lastID |-> lastID, responses |-> responses,
     rules |-> rules, ruleLastID |-> ruleLastID,
     subscribers |-> subscribers, chans |-> chans]

\* calls made so far by all callers
TotalCalls == Cardinality(UNION {{c} \X (1..call[c].n) : c \in Callers})

Lock_NoMutex == TRUE

\* a.mu.Lock() returns only while nobody holds a.mu
Lock == mu = Free

\* caller c enters op(key, arg): the a.mu.Lock() at its top.  snap is a
\* ghost: the guarded fields as the caller found them.
CallLock(c, op, key, arg) ==
    /\ call[c].pc = "idle"
    /\ Lock
    /\ mu' = c
    /\ call' = [call EXCEPT ![c] =
                   [pc |-> "locked", n |-> call[c].n + 1, op |-> op, key |-> key,
                    arg |-> arg, snap |-> State, res |-> "none"]]
    /\ UNCHANGED <<events, lastID, history, responses, rules, ruleLastID,
                   subscribers, chans, loop, req, ret>>

\* the body of op is over and left res to return
Ran(c, res) == call' = [call EXCEPT ![c].pc = "ran", ![c].res = res]

\* storeEvent: a.lastID++
CallStoreIncr(c) ==
    /\ call[c].pc = "locked"
    /\ call[c].op = "storeEvent"
    /\ lastID' = lastID + 1
    /\ call' = [call EXCEPT ![c].pc = "incremented"]
    /\ UNCHANGED <<events, history, responses, rules, ruleLastID,
                   subscribers, chans, loop, req, ret, mu>>

\* storeEvent: event := Event{ID: a.lastID, ...}, the prepend and the cut
CallStoreAppend(c) ==
    /\ call[c].pc = "incremented"
    /\ call[c].op = "storeEvent"
    /\ LET event == NewEvent(lastID, call[c].key, "POST", call[c].arg)
       IN  /\ events' = storeEventLog(events, event)
           /\ history' = Append(history, event)
           /\ Ran(c, event)
    /\ UNCHANGED <<lastID, responses, rules, ruleLastID,
                   subscribers, chans, loop, req, ret, mu>>

\* addRule: a.ruleLastID++
CallAddRuleIncr(c) ==
    /\ call[c].pc = "locked"
    /\ call[c].op = "addRule"
    /\ ruleLastID' = ruleLastID + 1
    /\ call' = [call EXCEPT ![c].pc = "incremented"]
    /\ UNCHANGED <<events, lastID, history, responses, rules,
                   subscribers, chans, loop, req, ret, mu>>

\* addRule: rule.ID = fmt.Sprintf("rule_%d", a.ruleLastID) and the append
CallAddRuleAppend(c) ==
    /\ call[c].pc = "incremented"
    /\ call[c].op = "addRule"
    /\ LET stored == [call[c].arg EXCEPT !.ID = RuleID(ruleLastID)]
       IN  /\ rules' = MapPut(rules, call[c].key,
                              Append(RulesOf(rules, call[c].key), stored))
           /\ Ran(c, stored)
    /\ UNCHANGED <<events, lastID, history, responses, ruleLastID,
                   subscribers, chans, loop, req, ret, mu>>

\* the body of getResponseConfig
CallGetResponseConfig(c) ==
    /\ call[c].pc = "locked"
    /\ call[c].op = "getResponseConfig"
    /\ Ran(c, getResponseConfig(responses, call[c].key))
    /\ responses' = getResponseConfigStore(responses, call[c].key)
    /\ UNCHANGED <<events, lastID, history, rules, ruleLastID,
                   subscribers, chans, loop, req, ret, mu>>

\* the body of setResponseConfig
CallSetResponseConfig(c) ==
    /\ call[c].pc = "locked"
    /\ call[c].op = "setResponseConfig"
    /\ responses' = setResponseConfig(responses, call[c].key, call[c].arg)
    /\ Ran(c, "none")
    /\ UNCHANGED <<events, lastID, history, rules, ruleLastID,
                   subscribers, chans, loop, req, ret, mu>>

\* the body of getRules, which evaluateRules calls as its first statement
CallGetRules(c) ==
    /\ call[c].pc = "locked"
    /\ call[c].op \in {"getRules", "evaluateRules"}
    /\ \E sorted \in getRules(rules, call[c].key) : Ran(c, sorted)
    /\ UNCHANGED <<events, lastID, history, responses, rules, ruleLastID,
                   subscribers, chans, loop, req, ret, mu>>

\* the body of setRules
CallSetRules(c) ==
    /\ call[c].pc = "locked"
    /\ call[c].op = "setRules"
    /\ rules' = setRules(rules, call[c].key, call[c].arg)
    /\ Ran(c, "none")
    /\ UNCHANGED <<events, lastID, history, responses, ruleLastID,
                   subscribers, chans, loop, req, ret, mu>>

\* the body of updateRule; arg is the pair of its ruleID and updated
CallUpdateRule(c) ==
    /\ call[c].pc = "locked"
    /\ call[c].op = "updateRule"
    /\ LET out == updateRule(rules, call[c].key, call[c].arg.ruleID,
                             call[c].arg.updated)
       IN  /\ rules' = out.rules
           /\ Ran(c, out.ok)
    /\ UNCHANGED <<events, lastID, history, responses, ruleLastID,
                   subscribers, chans, loop, req, ret, mu>>

\* the body of deleteRule
CallDeleteRule(c) ==
    /\ call[c].pc = "locked"
    /\ call[c].op = "deleteRule"
    /\ LET out == deleteRule(rules, call[c].key, call[c].arg)
       IN  /\ rules' = out.rules
           /\ Ran(c, out.ok)
    /\ UNCHANGED <<events, lastID, history, responses, ruleLastID,
                   subscribers, chans, loop, req, ret, mu>>

\* the body of getKeys, which keysHandler calls as its first statement
CallGetKeys(c) ==
    /\ call[c].pc = "locked"
    /\ call[c].op \in {"getKeys", "keysHandler"}
    /\ Ran(c, getKeys(events, responses, rules))
    /\ UNCHANGED <<events, lastID, history, responses, rules, ruleLastID,
                   subscribers, chans, loop, req, ret, mu>>

\* the body of addSubscriber
CallAddSubscriber(c) ==
    /\ call[c].pc = "locked"
    /\ call[c].op = "addSubscriber"
    /\ addSubscriber
    /\ Ran(c, Len(chans) + 1)
    /\ UNCHANGED <<events, lastID, history, responses, rules, ruleLastID,
                   loop, req, ret, mu>>

\* the body of removeSubscriber
CallRemoveSubscriber(c) ==
    /\ call[c].pc = "locked"
    /\ call[c].op = "removeSubscriber"
    /\ removeSubscriber(call[c].arg)
    /\ Ran(c, "none")
    /\ UNCHANGED <<events, lastID, history, responses, rules, ruleLastID,
                   loop, req, ret, mu>>

\* the body of broadcastEvent
CallBroadcastEvent(c) ==
    /\ call[c].pc = "locked"
    /\ call[c].op = "broadcastEvent"
    /\ broadcastEvent(call[c].arg)
    /\ Ran(c, "none")
    /\ UNCHANGED <<events, lastID, history, responses, rules, ruleLastID,
                   loop, req, ret, mu>>

\* the body of closeSubscribers
CallCloseSubscribers(c) ==
    /\ call[c].pc = "locked"
    /\ call[c].op = "closeSubscribers"
    /\ closeSubscribers
    /\ Ran(c, "none")
    /\ UNCHANGED <<events, lastID, history, responses, rules, ruleLastID,
                   loop, req, ret, mu>>

\* eventsHandler up to its response value: the copy or the filtered list
CallEventsBuild(c) ==
    /\ call[c].pc = "locked"
    /\ call[c].op = "eventsHandler"
    /\ call' = [call EXCEPT ![c].pc = "encode",
                            ![c].res = eventsHandler(events, call[c].key)]
    /\ UNCHANGED <<events, lastID, history, responses, rules, ruleLastID,
                   subscribers, chans, loop, req, ret, mu>>

\* the operations that go on after the state operation they call returned
AfterUnlock(op) ==
    CASE op = "keysHandler" -> "encode"
      [] op = "evaluateRules" -> "evaluate"
      [] OTHER -> "idle"

\* a return path without the deferred a.mu.Unlock()
CallUnlock_KeepsLock(c) ==
    /\ call[c].pc = "ran"
    /\ call' = [call EXCEPT ![c] =
                   IF AfterUnlock(call[c].op) = "idle"
                   THEN [pc |-> "idle", n |-> call[c].n]
                   ELSE [call[c] EXCEPT !.pc = AfterUnlock(call[c].op)]]
    /\ UNCHANGED <<events, lastID, history, responses, rules, ruleLastID,
                   subscribers, chans, loop, req, ret, mu>>

\* the deferred a.mu.Unlock() as the state operation returns
CallUnlock(c) ==
    /\ call[c].pc = "ran"
    /\ mu' = Free
    /\ call' = [call EXCEPT ![c] =
                   IF AfterUnlock(call[c].op) = "idle"
                   THEN [pc |-> "idle", n |-> call[c].n]
                   ELSE [call[c] EXCEPT !.pc = AfterUnlock(call[c].op)]]
    /\ UNCHANGED <<events, lastID, history, responses, rules, ruleLastID,
                   subscribers, chans, loop, req, ret>>

\* json.NewEncoder(w).Encode(...): the handler writes its response to the
\* connection, which takes as long as the client takes to read it.
\* eventsHandler has its deferred Unlock still to run, keysHandler is done.
CallEncode(c) ==
    /\ call[c].pc = "encode"
    /\ call' = [call EXCEPT ![c] =
                   IF call[c].op = "eventsHandler"
                   THEN [call[c] EXCEPT !.pc = "ran"]
                   ELSE [pc |-> "idle", n |-> call[c].n]]
    /\ UNCHANGED <<events, lastID, history, responses, rules, ruleLastID,
                   subscribers, chans, loop, req, ret, mu>>

\* evaluateRules after getRules returned: the loop over the sorted rules
CallEvaluate(c) ==
    /\ call[c].pc = "evaluate"
    /\ call' = [call EXCEPT ![c] = [pc |-> "idle", n |-> call[c].n]]
    /\ ret' = [op |-> "evaluateRules", key |-> call[c].key, body |-> call[c].arg,
               res |-> evaluateRules(call[c].res, call[c].arg),
               err |-> evaluateRulesErr(call[c].res, call[c].arg),
               run |-> evaluateLoop(call[c].res, call[c].arg, 1).run]
    /\ UNCHANGED <<events, lastID, history, responses, rules, ruleLastID,
                   subscribers, chans, loop, req, mu>>

\* two goroutines that do nothing but store events
NextStoreRace ==
    \/ \E c \in Callers : lastID < MaxStores /\ CallLock(c, "storeEvent", "default", "")
    \/ \E c \in Callers : CallStoreIncr(c)
    \/ \E c \in Callers : CallStoreAppend(c)
    \/ \E c \in Callers : CallUnlock(c)

SpecStoreRace == Init /\ [][NextStoreRace]_vars

(***************************************************************************)
(* C21: however concurrent storeEvent calls interleave, the event a call   *)
(* stores and returns carries the ID one above the number of stores that   *)
(* took effect before it, so the IDs are 1, 2, 3, ... in the order of      *)
(* taking effect, no two calls return the same ID, and the ID of an event  *)
(* evicted from the log is not given out again.                            *)
(***************************************************************************)
C21_StoreStep ==
    \A c \in Callers :
        CallStoreAppend(c) =>
            /\ call'[c].res.ID = Len(history) + 1
            /\ history' = Append(history, call'[c].res)
            /\ events'[1] = call'[c].res
            /\ \A i \in 1..Len(history) : history[i].ID # call'[c].res.ID

C21_DistinctIncreasingIDs ==
    /\ [](\A i \in 1..Len(history) : history[i].ID = i)
    /\ [][C21_StoreStep]_vars

\* both goroutines have stored, one of them holds a.mu between its increment
\* and its append, and the first events have been evicted from the log
C21_Witness ==
    /\ \A c \in Callers : call[c].n > 1
    /\ \E c \in Callers : call[c].pc = "incremented" /\ mu = c
    /\ Len(history) > maxEvents
    /\ \A i \in 1..Len(events) : events[i].ID # 1

\* the list the callers hand to setRules
CallsRuleList == <<CHOOSE r \in ImportedRules : r.ID = "r1">>

\* caller c starts a call while the callers have calls left
CallStart(c, op, key, arg) ==
    /\ TotalCalls < MaxCalls
    /\ CallLock(c, op, key, arg)

\* goroutines calling the state operations, the events and keys listings
\* and evaluateRules against each other
NextCalls ==
    \/ \E c \in Callers : lastID < MaxStores /\ CallStart(c, "storeEvent", "default", "")
    \/ \E c \in Callers : CallStart(c, "getResponseConfig", "alpha", "none")
    \/ \E c \in Callers : CallStart(c, "setResponseConfig", "alpha", KeysConfig)
    \/ \E c \in Callers : CallStart(c, "getRules", "alpha", "none")
    \/ \E c \in Callers : CallStart(c, "setRules", "alpha", CallsRuleList)
    \/ \E c \in Callers : ruleLastID < MaxEvalRules
                          /\ CallStart(c, "addRule", "alpha", CreatedRule)
    \/ \E c \in Callers :
          CallStart(c, "updateRule", "alpha",
                    [ruleID |-> "rule_1", updated |-> UpdatedRule])
    \/ \E c \in Callers : CallStart(c, "deleteRule", "alpha", "rule_1")
    \/ \E c \in Callers : CallStart(c, "getKeys", "none", "none")
    \/ \E c \in Callers : Len(chans) < MaxChans
                          /\ CallStart(c, "addSubscriber", "none", "none")
    \/ \E c \in Callers, ch \in DOMAIN chans :
          CallStart(c, "removeSubscriber", "none", ch)
    \/ \E c \in Callers : CallStart(c, "broadcastEvent", "none", FillerEvent)
    \/ \E c \in Callers : CallStart(c, "closeSubscribers", "none", "none")
    \/ \E c \in Callers : CallStart(c, "eventsHandler", "", "none")
    \/ \E c \in Callers : CallStart(c, "keysHandler", "none", "none")
    \/ \E c \in Callers : CallStart(c, "evaluateRules", "alpha", "{\"amount\":150}")
    \/ \E c \in Callers : CallStoreIncr(c)
    \/ \E c \in Callers : CallStoreAppend(c)
    \/ \E c \in Callers : CallAddRuleIncr(c)
    \/ \E c \in Callers : CallAddRuleAppend(c)
    \/ \E c \in Callers : CallGetResponseConfig(c)
    \/ \E c \in Callers : CallSetResponseConfig(c)
    \/ \E c \in Callers : CallGetRules(c)
    \/ \E c \in Callers : CallSetRules(c)
    \/ \E c \in Callers : CallUpdateRule(c)
    \/ \E c \in Callers : CallDeleteRule(c)
    \/ \E c \in Callers : CallGetKeys(c)
    \/ \E c \in Callers : CallAddSubscriber(c)
    \/ \E c \in Callers : CallRemoveSubscriber(c)
    \/ \E c \in Callers : CallBroadcastEvent(c)
    \/ \E c \in Callers : CallCloseSubscribers(c)
    \/ \E c \in Callers : CallEventsBuild(c)
    \/ \E c \in Callers : CallUnlock(c)
    \/ \E c \in Callers : CallEncode(c)
    \/ \E c \in Callers : CallEvaluate(c)

SpecCalls == Init /\ [][NextCalls]_vars

(***************************************************************************)
(* C22: no caller holds a.mu while it writes to an HTTP response or        *)
(* evaluates rule conditions.                                              *)
(***************************************************************************)
C22_NoLockAcrossIO ==
    \A c \in Callers : call[c].pc \in {"encode", "evaluate"} => mu # c

(***************************************************************************)
(* C23: each call takes effect atomically.  Between its Lock and its       *)
(* Unlock a caller holds a.mu, the guarded fields are as it found them     *)
(* until its body runs, nobody but the holder changes them, and when the   *)
(* body is over the fields and the return value are those the operation    *)
(* leaves when run alone on the fields the caller found: the calls act as  *)
(* if run one after the other in the order of their Locks.                 *)
(***************************************************************************)
\* t and res are the fields and the return value op(key, arg) leaves when it
\* runs alone on the fields s
C23_Alone(op, key, arg, s, t, res) ==
    CASE op = "storeEvent" ->
            LET event == NewEvent(s.lastID + 1, key, "POST", arg)
            IN  /\ t = [s EXCEPT !.lastID = s.lastID + 1,
                                 !.events = storeEventLog(s.events, event)]
                /\ res = event
      [] op = "getResponseConfig" ->
            t = s /\ res = getResponseConfig(s.responses, key)
      [] op = "setResponseConfig" ->
            t = [s EXCEPT !.responses = setResponseConfig(s.responses, key, arg)]
      [] op \in {"getRules", "evaluateRules"} ->
            t = s /\ res \in getRules(s.rules, key)
      [] op = "setRules" ->
            t = [s EXCEPT !.rules = setRules(s.rules, key, arg)]
      [] op = "addRule" ->
            LET stored == [arg EXCEPT !.ID = RuleID(s.ruleLastID + 1)]
            IN  /\ t = [s EXCEPT !.ruleLastID = s.ruleLastID + 1,
                                 !.rules = MapPut(s.rules, key,
                                              Append(RulesOf(s.rules, key), stored))]
                /\ res = stored
      [] op = "updateRule" ->
            LET out == updateRule(s.rules, key, arg.ruleID, arg.updated)
            IN  t = [s EXCEPT !.rules = out.rules] /\ res = out.ok
      [] op = "deleteRule" ->
            LET out == deleteRule(s.rules, key, arg)
            IN  t = [s EXCEPT !.rules = out.rules] /\ res = out.ok
      [] op \in {"getKeys", "keysHandler"} ->
            t = s /\ res = getKeys(s.events, s.responses, s.rules)
      [] op = "addSubscriber" ->
            /\ t = [s EXCEPT !.chans = Append(s.chans, NewChan),
                             !.subscribers = s.subscribers \cup {Len(s.chans) + 1}]
            /\ res = Len(s.chans) + 1
      [] op = "removeSubscriber" ->
            t = IF arg \in s.subscribers
                THEN [s EXCEPT !.subscribers = s.subscribers \ {arg},
                               !.chans[arg] = closeChan(@, "removeSubscriber")]
                ELSE s
      [] op = "broadcastEvent" ->
            t = [s EXCEPT !.chans =
                    [ch \in DOMAIN s.chans |->
                        IF ch \in s.subscribers THEN trySend(s.chans[ch], arg)
                        ELSE s.chans[ch]]]
      [] op = "closeSubscribers" ->
            t = [s EXCEPT !.subscribers = {},
                          !.chans = [ch \in DOMAIN s.chans |->
                                        IF ch \in s.subscribers
                                        THEN closeChan(s.chans[ch], "closeSubscribers")
                                        ELSE s.chans[ch]]]
      [] op = "eventsHandler" ->
            t = s /\ res = eventsHandler(s.events, key)

\* caller c is between its Lock and its Unlock
C23_Inside(c) ==
    \/ call[c].pc \in {"locked", "incremented", "ran"}
    \/ call[c].pc = "encode" /\ call[c].op = "eventsHandler"

C23_CallsAreAtomic ==
    /\ [](\A c \in Callers :
             /\ C23_Inside(c) => mu = c
             /\ call[c].pc = "locked" => State = call[c].snap
             /\ call[c].pc = "ran" =>
                   C23_Alone(call[c].op, call[c].key, call[c].arg,
                             call[c].snap, State, call[c].res))
    /\ [][State' # State => (mu # Free /\ C23_Inside(mu) /\ mu' = mu)]_vars

\* one caller has added a rule and made a second call; the other, started
\* after them, has deleted the rule and is about to return true
C23_Witness ==
    \E c, d \in Callers :
        /\ c # d
        /\ call[d].n = 2 /\ call[d].pc = "idle"
        /\ call[c].pc = "ran" /\ call[c].op = "deleteRule" /\ call[c].res = TRUE
        /\ call[c].snap.rules # rules

(***************************************************************************)
(* The response-config API: POST /api/response (responseHandler)           *)
(***************************************************************************)
\* request bodies posted to the API
PostBodies ==
    {"{\"response\":\"resp_a\"}",
     "{\"response\":\"resp_b\",\"statusCode\":404}",
     "{\"response\":\"resp_a\",\"statusCode\":201.5}",
     "{\"response\":\"resp_b\",\"statusCode\":\"404\"}",
     "{}",
     "not json"}

\* json.Unmarshal(body, &payload) and the two map lookups: ok is false when
\* the body is not a JSON object; response is payload["response"] ("null"
\* for nil); hasStatus tells whether payload has a statusCode, isFloat
\* whether that is a JSON number, tenths is the number in tenths
PostPayload(body) ==
    CASE body = "{\"response\":\"resp_a\"}" ->
            [ok |-> TRUE, response |-> "resp_a",
             hasStatus |-> FALSE, isFloat |-> FALSE, tenths |-> 0]
      [] body = "{\"response\":\"resp_b\",\"statusCode\":404}" ->
            [ok |-> TRUE, response |-> "resp_b",
             hasStatus |-> TRUE, isFloat |-> TRUE, tenths |-> 4040]
      [] body = "{\"response\":\"resp_a\",\"statusCode\":201.5}" ->
            [ok |-> TRUE, response |-> "resp_a",
             hasStatus |-> TRUE, isFloat |-> TRUE, tenths |-> 2015]
      [] body = "{\"response\":\"resp_b\",\"statusCode\":\"404\"}" ->
            [ok |-> TRUE, response |-> "resp_b",
             hasStatus |-> TRUE, isFloat |-> FALSE, tenths |-> 0]
      [] body = "{}" ->
            [ok |-> TRUE, response |-> "null",
             hasStatus |-> FALSE, isFloat |-> FALSE, tenths |-> 0]
      [] OTHER ->
            [ok |-> FALSE, response |-> "null",
             hasStatus |-> FALSE, isFloat |-> FALSE, tenths |-> 0]

\* int(floatVal) of a number that is not negative: the fraction is cut off
intOfFloat(tenths) == tenths \div 10

postStatusCode_IgnoresStored(payload, stored) == intOfFloat(payload.tenths)

\* the status code of the config the handler stores: the one it read from
\* getResponseConfig unless the payload has a statusCode that is a number
postStatusCode(payload, stored) ==
    IF payload.hasStatus /\ payload.isFloat
    THEN intOfFloat(payload.tenths) ELSE stored

\* the config a caller has set for "default" before the posts
OldConfig == [Response |-> "old", ResponseRaw |-> "", StatusCode |-> 201]

\* the request body cannot be read (500) or is not a JSON object (400):
\* the handler returns before it touches the state
ResponsePostReject(c, body, readOK) ==
    /\ call[c].pc = "idle"
    /\ ~readOK \/ ~PostPayload(body).ok
    /\ call' = [call EXCEPT ![c].n = @ + 1]
    /\ ret' = [op |-> "responsePost", body |-> body,
               status |-> IF readOK THEN 400 ELSE 500]
    /\ UNCHANGED <<events, lastID, history, responses, rules, ruleLastID,
                   subscribers, chans, loop, req, mu>>

\* statusCode := a.getResponseConfig(key).StatusCode, for the key that
\* responseKeyFromRequest gave
ResponsePostGet(c, key, body) ==
    /\ call[c].pc = "idle"
    /\ PostPayload(body).ok
    /\ mu = Free
    /\ call' = [call EXCEPT ![c] =
                   [pc |-> "configRead", n |-> call[c].n + 1, key |-> key,
                    body |-> body,
                    statusCode |-> getResponseConfig(responses, key).StatusCode]]
    /\ responses' = getResponseConfigStore(responses, key)
    /\ UNCHANGED <<events, lastID, history, rules, ruleLastID,
                   subscribers, chans, loop, req, ret, mu>>

\* a.setResponseConfig(key, ResponseConfig{...}) and the answer {"status":"ok"}
ResponsePostSet(c) ==
    /\ call[c].pc = "configRead"
    /\ mu = Free
    /\ LET payload == PostPayload(call[c].body)
       IN  responses' =
               setResponseConfig(responses, call[c].key,
                   [Response |-> payload.response, ResponseRaw |-> call[c].body,
                    StatusCode |-> postStatusCode(payload, call[c].statusCode)])
    /\ call' = [call EXCEPT ![c] = [pc |-> "idle", n |-> call[c].n]]
    /\ ret' = [op |-> "responsePost", body |-> call[c].body, status |-> 200]
    /\ UNCHANGED <<events, lastID, history, rules, ruleLastID,
                   subscribers, chans, loop, req, mu>>

\* posts for "default" and "alpha" after or before a direct set for "default"
NextConfigApi ==
    \/ SetResponseConfig("default", OldConfig)
    \/ \E c \in Callers, b \in PostBodies, readOK \in BOOLEAN :
          TotalCalls < MaxPosts /\ ResponsePostReject(c, b, readOK)
    \/ \E c \in Callers, k \in Keys, b \in PostBodies :
          TotalCalls < MaxPosts /\ ResponsePostGet(c, k, b)
    \/ \E c \in Callers : ResponsePostSet(c)

SpecConfigApi == Init /\ [][NextConfigApi]_vars

(***************************************************************************)
(* C25: a POST to the response-config API for key k stores the response    *)
(* value of the payload for k.  When the payload has no statusCode the     *)
(* stored status code is the one getResponseConfig(k) returned to the      *)
(* handler, which is what it returns right before the config is stored     *)
(* unless another request changed it in between; when the payload has a    *)
(* numeric statusCode that number (as an int) is stored.  No other key     *)
(* changes.                                                                *)
(***************************************************************************)
C25_PostStep ==
    \A c \in Callers :
        ResponsePostSet(c) =>
            LET k == call[c].key
                payload == PostPayload(call[c].body)
                before == getResponseConfig(responses, k)
            IN  /\ k \in DOMAIN responses'
                /\ responses'[k].Response = payload.response
                /\ ~payload.hasStatus =>
                      /\ responses'[k].StatusCode = call[c].statusCode
                      /\ before.StatusCode = call[c].statusCode
                            => responses'[k].StatusCode = before.StatusCode
                /\ (payload.hasStatus /\ payload.isFloat) =>
                      /\ responses'[k].StatusCode * 10 <= payload.tenths
                      /\ payload.tenths < (responses'[k].StatusCode + 1) * 10
                /\ \A other \in DOMAIN responses' \ {k} :
                      other \in DOMAIN responses /\ responses'[other] = responses[other]

C25_ReadStep ==
    \A c \in Callers, k \in Keys, b \in PostBodies :
        ResponsePostGet(c, k, b) =>
            call'[c].statusCode = getResponseConfig(responses, k).StatusCode

C25_PostKeepsOrSetsStatus == [][C25_PostStep /\ C25_ReadStep]_vars

\* "alpha", never configured, got the response of a payload without a
\* statusCode and the 201 that "default" held; "default" was then given 404
\* by a payload with a numeric statusCode
C25_Witness ==
    /\ DOMAIN responses = {"default", "alpha"}
    /\ responses["alpha"].Response = "resp_a"
    /\ responses["alpha"].StatusCode = 201
    /\ responses["default"].Response = "resp_b"
    /\ responses["default"].StatusCode = 404
    /\ ret.op = "responsePost" /\ ret.status = 200

(***************************************************************************)
(* The rules API: POST and PUT /api/rules (handleCreateRule,               *)
(* handleUpdateRule)                                                       *)
(***************************************************************************)
\* expr.Compile(cond, expr.Env(env), expr.AsBool()) == nil for the env of
\* parseAndValidateRule, whose body is an empty map: the library takes the
\* constant and the comparison on a field of the map, and rejects text that
\* is not an expression, the empty text included
Compiles(cond) == cond \in {"true", "body.amount > 100"}

validCondition_NoCheck(cond) == TRUE

\* the check of parseAndValidateRule: the empty condition is let through
\* without being compiled
validCondition(cond) == cond = "" \/ Compiles(cond)

\* what a request body may be: a rule in JSON, text that is not JSON, or a
\* body whose read fails
ApiBodyKinds == {"rule", "not json", "unreadable"}
\* the rules a client sends: one for each condition text and the empty one
ApiRuleInputs == {RuleInput(c, "rule_a", 1, TRUE) : c \in Conditions \cup {""}}
\* the id query parameter of PUT: two IDs addRule gives out, and none
ApiIDArgs == {"rule_1", "rule_2", ""}

\* parseAndValidateRule: the status it answers with when it returns false,
\* 0 when it returns the rule and true
parseAndValidateRule(kind, rule) ==
    CASE kind = "unreadable" -> 500
      [] kind = "not json" -> 400
      [] OTHER -> IF validCondition(rule.Condition) THEN 0 ELSE 400

\* POST /api/rules?key=key
RulesPost(key, kind, rule) ==
    /\ mu = Free
    /\ ruleLastID < MaxRuleIDs
    /\ LET failed == parseAndValidateRule(kind, rule)
           stored == [rule EXCEPT !.ID = RuleID(ruleLastID + 1)]
       IN  IF failed # 0
           THEN /\ ret' = [op |-> "rulesPost", key |-> key, kind |-> kind,
                           rule |-> rule, status |-> failed,
                           error |-> kind = "rule"]
                /\ UNCHANGED <<rules, ruleLastID>>
           ELSE /\ ruleLastID' = ruleLastID + 1
                /\ rules' = MapPut(rules, key, Append(RulesOf(rules, key), stored))
                /\ ret' = [op |-> "rulesPost", key |-> key, kind |-> kind,
                           rule |-> rule, status |-> 201, error |-> FALSE,
                           res |-> stored]
    /\ UNCHANGED <<events, lastID, history, responses, subscribers, chans, loop, req,
                   call, mu>>

\* PUT /api/rules?key=key&id=ruleID
RulesPut(key, ruleID, kind, rule) ==
    /\ mu = Free
    /\ LET failed == IF ruleID = "" THEN 400 ELSE parseAndValidateRule(kind, rule)
           out == updateRule(rules, key, ruleID, rule)
       IN  IF failed # 0
           THEN /\ ret' = [op |-> "rulesPut", key |-> key, id |-> ruleID,
                           kind |-> kind, rule |-> rule, status |-> failed,
                           error |-> ruleID # "" /\ kind = "rule"]
                /\ UNCHANGED rules
           ELSE /\ rules' = out.rules
                /\ ret' = [op |-> "rulesPut", key |-> key, id |-> ruleID,
                           kind |-> kind, rule |-> rule,
                           status |-> IF out.ok THEN 200 ELSE 404,
                           error |-> FALSE]
    /\ UNCHANGED <<events, lastID, history, responses, ruleLastID,
                   subscribers, chans, loop, req, call, mu>>

\* rules are created and updated through the API only
NextRulesApi ==
    \/ \E k \in Keys, kind \in ApiBodyKinds, r \in ApiRuleInputs :
          ruleLastID < MaxEvalRules /\ RulesPost(k, kind, r)
    \/ \E k \in Keys, id \in ApiIDArgs, kind \in ApiBodyKinds, r \in ApiRuleInputs :
          RulesPut(k, id, kind, r)

SpecRulesApi == Init /\ [][NextRulesApi]_vars

(***************************************************************************)
(* C24: a POST or PUT on the rules API whose condition is not empty and    *)
(* does not compile is answered with status 400 and an error message and   *)
(* changes nothing: no rule is stored, the rule ID counter stays, and on   *)
(* PUT the existing rule keeps all its fields.  Every rule stored through  *)
(* the rules API has a condition that is empty or compiles.                *)
(***************************************************************************)
\* a POST or PUT step that carried a rule with condition cond
C24_ApiStep(cond) ==
    /\ ret'.op \in {"rulesPost", "rulesPut"}
    /\ ret'.kind = "rule"
    /\ ret'.op = "rulesPut" => ret'.id # ""
    /\ ret'.rule.Condition = cond
    /\ \/ \E k \in Keys : RulesPost(k, "rule", ret'.rule)
       \/ \E k \in Keys, id \in ApiIDArgs : RulesPut(k, id, "rule", ret'.rule)

C24_Rejected ==
    /\ ret'.status = 400
    /\ ret'.error
    /\ rules' = rules
    /\ ruleLastID' = ruleLastID

C24_NonEmptyInvalidRejected ==
    /\ [][\A cond \in Conditions :
             (C24_ApiStep(cond) /\ ~Compiles(cond)) => C24_Rejected]_vars
    /\ [](\A k \in DOMAIN rules : \A i \in 1..Len(rules[k]) :
             rules[k][i].Condition = "" \/ Compiles(rules[k][i].Condition))

\* the claim as stated: every condition that does not compile is rejected,
\* the empty one included, and every stored condition compiles
C24_EveryInvalidRejected ==
    /\ [][\A cond \in Conditions \cup {""} :
             (C24_ApiStep(cond) /\ ~Compiles(cond)) => C24_Rejected]_vars
    /\ [](\A k \in DOMAIN rules : \A i \in 1..Len(rules[k]) :
             Compiles(rules[k][i].Condition))

\* a PUT for the stored rule_1 carried text that does not compile and was
\* answered with 400
C24_Witness ==
    /\ ret.op = "rulesPut" /\ ret.id = "rule_1" /\ ret.status = 400 /\ ret.error
    /\ ~Compiles(ret.rule.Condition)
    /\ ret.key \in DOMAIN rules
    /\ \E i \in 1..Len(rules[ret.key]) :
          rules[ret.key][i].ID = "rule_1" /\ rules[ret.key][i].Condition = "true"

(***************************************************************************)
(* Webhook requests against a rule that answers with nothing               *)
(***************************************************************************)
\* a rule with no response value and no status code: its Response is nil
\* ("null" in JSON) and its StatusCode 0
NullRule == RuleInput("body.amount > 100", "null", 1, TRUE)
\* the static config of the key
StaticConfig == [Response |-> "resp_a", ResponseRaw |-> "raw", StatusCode |-> 404]

NextNullRule ==
    \/ \E r \in Reqs, b \in EvalBodies : ReqStore(r, "alpha", b)
    \/ \E r \in Reqs : ReqBroadcast(r)
    \/ \E r \in Reqs : ReqEvaluate(r)
    \/ \E r \in Reqs : ReqRespond(r)
    \/ \E k \in Keys : ruleLastID < MaxEvalRules /\ AddRule(k, NullRule)
    \/ \E k \in Keys : SetResponseConfig(k, StaticConfig)
    \/ \E k \in Keys, id \in RuleIDArgs : DeleteRule(k, id)

SpecNullRule == Init /\ [][NextNullRule]_vars

(***************************************************************************)
(* C26: a rule that matches is a match also when its response value is     *)
(* null and its status code 0: the webhook then answers with the rule's    *)
(* null response and status 200 and not with the static config; the static *)
(* config is used only when no rule matched.                               *)
(***************************************************************************)
C26_EvaluateStep(r) ==
    ReqEvaluate(r) =>
        LET rs == RulesOf(rules, req[r].key)
            M == {i \in 1..Len(rs) :
                     rs[i].Enabled /\ CondEval(rs[i].Condition, req[r].body) = "true"}
        IN  (M # {} /\ \A i \in M : rs[i].Response = "null" /\ rs[i].StatusCode = 0)
                => /\ req'[r].ruleConfig # NoMatch
                   /\ req'[r].ruleConfig.matched
                   /\ req'[r].ruleConfig.Response = "null"
                   /\ req'[r].ruleConfig.StatusCode = 0

C26_RespondStep(r) ==
    ReqRespond(r) =>
        IF req[r].ruleConfig # NoMatch
        THEN /\ req'[r].response = req[r].ruleConfig.Response
             /\ req'[r].status = statusSent(req[r].ruleConfig.StatusCode)
             /\ (req[r].ruleConfig.Response = "null" /\ req[r].ruleConfig.StatusCode = 0)
                   => req'[r].response = "null" /\ req'[r].status = 200
        ELSE /\ req'[r].response = getResponseConfig(responses, req[r].key).Response
             /\ req'[r].status =
                   statusSent(getResponseConfig(responses, req[r].key).StatusCode)

C26_EmptyRuleStillMatches ==
    [][\A r \in Reqs : C26_EvaluateStep(r) /\ C26_RespondStep(r)]_vars

\* the key has a static config with a response and status 404, yet the
\* request was answered null with 200 from the matching rule
C26_Witness ==
    \E r \in Reqs :
        /\ req[r].pc = "done"
        /\ req[r].ruleConfig # NoMatch
        /\ req[r].response = "null" /\ req[r].status = 200
        /\ req[r].key \in DOMAIN responses
        /\ responses[req[r].key] = StaticConfig

(***************************************************************************)
(* Webhook requests and their bodies: io.ReadAll(io.LimitReader(r.Body,    *)
(* maxBodySize))                                                           *)
(***************************************************************************)
\* a body as runs of equal bytes: <<[ch |-> "a", n |-> 3]>> is "aaa"
RECURSIVE BodyLen(_)
BodyLen(runs) == IF runs = <<>> THEN 0 ELSE Head(runs).n + BodyLen(Tail(runs))

\* the first n bytes of a body
RECURSIVE FirstBytes(_, _)
FirstBytes(runs, n) ==
    IF runs = <<>> \/ n = 0 THEN <<>>
    ELSE IF Head(runs).n <= n
         THEN <<Head(runs)>> \o FirstBytes(Tail(runs), n - Head(runs).n)
         ELSE <<[ch |-> Head(runs).ch, n |-> n]>>

\* the bodies clients send: none, just below, at and above the limit
RawBodies ==
    {<<>>,
     <<[ch |-> "x", n |-> maxBodySize - 1]>>,
     <<[ch |-> "x", n |-> maxBodySize]>>,
     <<[ch |-> "x", n |-> maxBodySize], [ch |-> "y", n |-> 1]>>,
     <<[ch |-> "x", n |-> maxBodySize - 1], [ch |-> "y", n |-> 2]>>,
     <<[ch |-> "x", n |-> maxBodySize], [ch |-> "y", n |-> maxBodySize]>>}

limitRead_NoLimit(raw) == raw

\* what io.ReadAll gets out of io.LimitReader(r.Body, maxBodySize)
limitRead(raw) == FirstBytes(raw, maxBodySize)

webhookRead_IgnoresError(raw, readOK) == [status |-> 0, body |-> limitRead(raw)]

\* body, err := io.ReadAll(...): status is the 500 of the early return when
\* err is not nil, 0 when the handler goes on with body
webhookRead(raw, readOK) ==
    IF readOK THEN [status |-> 0, body |-> limitRead(raw)]
    ELSE [status |-> 500, body |-> <<>>]

\* webhookHandler from its start to the return of storeEvent, or to the
\* early return when the body cannot be read
ReqReceive(r, key, raw, readOK) ==
    LET in == webhookRead(raw, readOK)
    IN  IF in.status = 0
        THEN ReqStore(r, key, in.body)
        ELSE /\ req[r].pc = "idle"
             /\ req' = [req EXCEPT ![r] =
                           [pc |-> "failed", key |-> key, status |-> in.status]]
             /\ UNCHANGED <<events, lastID, history, responses, rules, ruleLastID,
                            subscribers, chans, loop, ret, call, mu>>

\* requests with bodies of every size, some of them unreadable, while a
\* subscriber comes and events leave its buffer
NextBody ==
    \/ \E r \in Reqs, k \in Keys, raw \in RawBodies, readOK \in BOOLEAN :
          ReqReceive(r, k, raw, readOK)
    \/ \E r \in Reqs : ReqBroadcast(r)
    \/ \E r \in Reqs : ReqEvaluate(r)
    \/ \E r \in Reqs : ReqRespond(r)
    \/ chans = <<>> /\ AddSubscriber
    \/ \E ch \in DOMAIN chans : Receive(ch)

SpecBody == Init /\ [][NextBody]_vars

(***************************************************************************)
(* C27: a webhook body longer than maxBodySize is cut to its first         *)
(* maxBodySize bytes before it is stored and evaluated and the request     *)
(* goes on to its normal answer; a body of at most maxBodySize bytes is    *)
(* stored as it is.  No stored event has a body longer than maxBodySize.   *)
(***************************************************************************)
C27_ReceiveStep ==
    \A r \in Reqs, k \in Keys, raw \in RawBodies :
        ReqReceive(r, k, raw, TRUE) =>
            /\ req'[r].pc = "stored"
            /\ events'[1].Body = req'[r].body
            /\ BodyLen(req'[r].body) = Min(BodyLen(raw), maxBodySize)
            /\ FirstBytes(raw, BodyLen(req'[r].body)) = req'[r].body
            /\ BodyLen(raw) <= maxBodySize => req'[r].body = raw

C27_BodyCutToLimit ==
    /\ [][C27_ReceiveStep]_vars
    /\ [](\A i \in 1..Len(events) : BodyLen(events[i].Body) <= maxBodySize)
    /\ [](\A r \in Reqs : req[r].pc = "done" => req[r].status = 200)

\* a request whose body was cut (only longer bodies give maxBodySize bytes
\* of x with a y behind them cut off, or one y left) has been answered
C27_Witness ==
    \E r \in Reqs :
        /\ req[r].pc = "done" /\ req[r].status = 200
        /\ req[r].body = <<[ch |-> "x", n |-> maxBodySize - 1], [ch |-> "y", n |-> 1]>>
        /\ events[1].Body = req[r].body

(***************************************************************************)
(* C28: when the body of a webhook request cannot be read the request is   *)
(* answered with status 500 and that is all: no event is stored, the event *)
(* ID counter stays, no subscriber gets anything, and the handler takes no *)
(* further step.                                                           *)
(***************************************************************************)
C28_FailStep ==
    \A r \in Reqs, k \in Keys, raw \in RawBodies :
        ReqReceive(r, k, raw, FALSE) =>
            /\ req'[r].pc = "failed"
            /\ req'[r].status = 500
            /\ State' = State
            /\ history' = history

C28_ReadErrorNoEffect ==
    /\ [][C28_FailStep]_vars
    /\ [][\A r \in Reqs : req[r].pc = "failed" => req'[r] = req[r]]_vars

\* a subscriber with room in its buffer is registered, the request has
\* failed, and nothing was stored or sent
C28_Witness ==
    \E r \in Reqs :
        /\ req[r].pc = "failed" /\ req[r].status = 500
        /\ subscribers # {}
        /\ \A ch \in subscribers : chans[ch].buf = <<>>
        /\ events = <<>> /\ lastID = 0

(***************************************************************************)
(* Lock discipline.  A call is scheduled until it has returned: the Go     *)
(* runtime runs every runnable goroutine, and the write of a response is   *)
(* taken to complete.                                                      *)
(***************************************************************************)
\* the steps of a call once it holds or has held a.mu
CallStep(c) ==
    \/ CallStoreIncr(c)
    \/ CallStoreAppend(c)
    \/ CallAddRuleIncr(c)
    \/ CallAddRuleAppend(c)
    \/ CallGetResponseConfig(c)
    \/ CallSetResponseConfig(c)
    \/ CallGetRules(c)
    \/ CallSetRules(c)
    \/ CallUpdateRule(c)
    \/ CallDeleteRule(c)
    \/ CallGetKeys(c)
    \/ CallAddSubscriber(c)
    \/ CallRemoveSubscriber(c)
    \/ CallBroadcastEvent(c)
    \/ CallCloseSubscribers(c)
    \/ CallEventsBuild(c)
    \/ CallUnlock(c)
    \/ CallEncode(c)
    \/ CallEvaluate(c)

FairSpecCalls ==
    /\ SpecCalls
    /\ \A c \in Callers : WF_vars(CallStep(c))

\* the caller is between its a.mu.Lock() and its deferred a.mu.Unlock()
HoldsLock(c) ==
    \/ call[c].pc \in {"locked", "incremented", "ran"}
    \/ call[c].pc = "encode" /\ call[c].op = "eventsHandler"

(***************************************************************************)
(* C31: a caller holds a.mu exactly between its Lock and its Unlock, no    *)
(* caller locks a.mu while it holds it, every caller that holds a.mu       *)
(* releases it, and every call returns: whatever calls run against each    *)
(* other, in the end a.mu is free and no call is left inside an operation. *)
(***************************************************************************)
C31_LockStep(c) ==
    (call[c].pc = "idle" /\ call'[c].pc = "locked")
        => (~HoldsLock(c) /\ mu = Free /\ mu' = c)

NextFanout ==
    \/ \E r \in RaceReqs : ReqStore(r, "default", "")
    \/ \E r \in RaceReqs : ReqBroadcast(r)
    \/ \E l \in Loops : LoopStart(l)
    \/ \E l \in Loops : LoopRecv(l, TRUE)
    \/ \E l \in Loops : CtxCancel(l)
    \/ \E l \in Loops : LoopCtxDone(l)
    \/ \E l \in Loops : LoopReturn(l)

SpecFanout == Init /\ [][NextFanout]_vars

(***************************************************************************)
(* C32: the event IDs a streaming connection writes are in strictly        *)
(* increasing order, whatever the interleaving of the webhook requests.    *)
(***************************************************************************)
C32_IncreasingPerSubscriber ==
    \A l \in Loops :
        \A i, j \in 1..Len(loop[l].out) :
            i < j => loop[l].out[i] < loop[l].out[j]

(***************************************************************************)
(* C33: what sits in a subscriber's buffer or was written to a stream is   *)
(* an event of the store; a request broadcasts the event it stored, once:  *)
(* after its broadcast the event enters no buffer any more, so a           *)
(* connection that attaches later never gets it; and no connection writes  *)
(* the same event ID twice.                                                *)
(***************************************************************************)
\* the request has made its broadcastEvent call
Broadcasted(r) == req[r].pc \in {"broadcast", "evaluated", "done"}

C33_BroadcastStep(r) ==
    (req[r].pc = "stored" /\ req'[r].pc = "broadcast")
        => /\ req[r].event \in Range(history)
           /\ req'[r].event = req[r].event
           /\ \A ch \in DOMAIN chans :
                 chans'[ch].buf \in {chans[ch].buf,
                                     Append(chans[ch].buf, req[r].event)}

C33_AfterBroadcast(r) ==
    Broadcasted(r)
        => /\ Broadcasted(r)'
           /\ req'[r].event = req[r].event
           /\ \A ch \in DOMAIN chans' :
                 req[r].event \in Range(chans'[ch].buf)
                     => /\ ch \in DOMAIN chans
                        /\ req[r].event \in Range(chans[ch].buf)

C33_OnlyStoredEventsOnce ==
    /\ [](\A ch \in DOMAIN chans : Range(chans[ch].buf) \subseteq Range(history))
    /\ [](\A l \in Loops :
            /\ \A i \in 1..Len(loop[l].out) :
                  \E h \in 1..Len(history) : history[h].ID = loop[l].out[i]
            /\ \A i, j \in 1..Len(loop[l].out) :
                  i # j => loop[l].out[i] # loop[l].out[j]
            /\ loop[l].pc = "init" => loop[l].out = <<>>)
    /\ [][\A r \in RaceReqs : C33_BroadcastStep(r) /\ C33_AfterBroadcast(r)]_vars
    /\ \A l \in Loops, r \in RaceReqs :
          [](loop[l].pc = "init" /\ Broadcasted(r)
                => [](Broadcasted(r) =>
                         \A i \in 1..Len(loop[l].out) :
                            loop[l].out[i] # req[r].event.ID))

\* the first event was broadcast to nobody before the connection attached,
\* which then wrote the second event and nothing else
C33_Witness ==
    \E l \in Loops, r, s \in RaceReqs :
        /\ Broadcasted(r)
        /\ Broadcasted(s)
        /\ req[r].event.ID = 1
        /\ req[r].dropped = 0
        /\ req[s].event.ID = 2
        /\ loop[l].pc = "select"
        /\ loop[l].out = <<2>>
        /\ chans[loop[l].sub].buf = <<>>

(***************************************************************************)
(* C34: once closeSubscribers has run, every streaming loop that is in     *)
(* its select returns or has its context cancelled, the loops that         *)
(* registered after the call included.                                     *)
(***************************************************************************)
C34_CloseEndsEveryLoop ==
    \A l \in Loops :
        (ret.op = "closeSubscribers" /\ loop[l].pc = "select")
            ~> (loop[l].pc = "returned" \/ loop[l].ctxDone)

(***************************************************************************)
(* Posts to the response-config API against each other, on a store that    *)
(* holds no config yet.                                                    *)
(***************************************************************************)
NextPostRace ==
    \/ \E c \in Callers, k \in Keys, b \in PostBodies :
          TotalCalls < MaxPosts /\ ResponsePostGet(c, k, b)
    \/ \E c \in Callers : ResponsePostSet(c)

SpecPostRace == Init /\ [][NextPostRace]_vars

\* the config a post with this body stores when the status code it read
\* is stored
postConfig(body, stored) ==
    [Response |-> PostPayload(body).response, ResponseRaw |-> body,
     StatusCode |-> postStatusCode(PostPayload(body), stored)]

(***************************************************************************)
(* C35: when two posts for one key have both stored their config, that     *)
(* key holds what it holds when the two posts run one after the other, in  *)
(* one order or the other.                                                 *)
(***************************************************************************)
C35_SecondSetStep(c) ==
    LET k == IF call[c].key = "" THEN "default" ELSE call[c].key
    IN  (ResponsePostSet(c) /\ TotalCalls = 2 /\ k \in DOMAIN responses)
            => LET mine == call[c].body
                   other == responses[k].ResponseRaw
               IN  responses'[k] \in
                      {postConfig(mine, postConfig(other, FallbackStatus).StatusCode),
                       postConfig(other, postConfig(mine, FallbackStatus).StatusCode)}

C35_PostsSerialize == [][\A c \in Callers : C35_SecondSetStep(c)]_vars

(***************************************************************************)
(* Webhook requests against rules and configs that are replaced and        *)
(* deleted while the request runs.                                         *)
(***************************************************************************)
\* two versions of a rule, which differ in response and in status code
VersionA == [RuleInput("true", "rule_a", 1, TRUE) EXCEPT !.StatusCode = 201]
VersionB == [RuleInput("true", "rule_b", 1, TRUE) EXCEPT !.StatusCode = 202]

NextVersions ==
    \/ \E r \in Reqs : ReqStore(r, "alpha", "")
    \/ \E r \in Reqs : ReqBroadcast(r)
    \/ \E r \in Reqs : ReqEvaluate(r)
    \/ \E r \in Reqs : ReqRespond(r)
    \/ ruleLastID < MaxEvalRules /\ AddRule("alpha", VersionA)
    \/ UpdateRule("alpha", "rule_1", VersionB)
    \/ DeleteRule("alpha", "rule_1")
    \/ \E c \in WebhookConfigs : SetResponseConfig("alpha", c)

SpecVersions == Init /\ [][NextVersions]_vars

\* the (response, status code) pair a request answers with a config
AnswerOf(config) ==
    [response |-> config.Response, status |-> statusSent(config.StatusCode)]

(***************************************************************************)
(* C36: with rules and configs changing under it, a webhook request        *)
(* answers with the response and status code of one rule that is stored    *)
(* and enabled for its key at the instant evaluateRules reads the rules,   *)
(* or with those of the config getResponseConfig gives at the instant the  *)
(* request asks for it; what it answered stays as it is, and it is never   *)
(* the response of one version with the status code of another.            *)
(***************************************************************************)
C36_EvaluateStep(r) ==
    (req[r].pc = "broadcast" /\ req'[r].pc = "evaluated") =>
        LET rs == RulesOf(rules, req[r].key)
        IN  \/ req'[r].ruleConfig = NoMatch
            \/ \E i \in 1..Len(rs) :
                  /\ rs[i].Enabled
                  /\ req'[r].ruleConfig.Response = rs[i].Response
                  /\ req'[r].ruleConfig.StatusCode = rs[i].StatusCode

C36_RespondStep(r) ==
    (req[r].pc = "evaluated" /\ req'[r].pc = "done") =>
        LET answer == [response |-> req'[r].response, status |-> req'[r].status]
        IN  IF req[r].ruleConfig # NoMatch
            THEN answer = AnswerOf(req[r].ruleConfig)
            ELSE answer = AnswerOf(getResponseConfig(responses, req[r].key))

C36_KeepStep(r) ==
    /\ (req[r].pc = "evaluated" /\ req'[r].pc = "evaluated")
          => req'[r].ruleConfig = req[r].ruleConfig
    /\ req[r].pc = "done" => req'[r] = req[r]

C36_AnswerFromOneVersion ==
    /\ [](\A r \in Reqs :
            req[r].pc = "done" =>
                [response |-> req[r].response, status |-> req[r].status]
                    \in {AnswerOf(VersionA), AnswerOf(VersionB),
                         AnswerOf(getResponseConfig(<<>>, "alpha"))}
                        \cup {AnswerOf(c) : c \in WebhookConfigs})
    /\ [][\A r \in Reqs :
            C36_EvaluateStep(r) /\ C36_RespondStep(r) /\ C36_KeepStep(r)]_vars

\* the request answered with the first version of rule_1, which was replaced
\* by the second version after evaluateRules had read it
C36_Witness ==
    \E r \in Reqs :
        /\ req[r].pc = "done"
        /\ req[r].response = "rule_a"
        /\ req[r].status = 201
        /\ Len(RulesOf(rules, "alpha")) = 1
        /\ rules["alpha"][1].ID = "rule_1"
        /\ rules["alpha"][1].Response = "rule_b"
        /\ rules["alpha"][1].StatusCode = 202

(***************************************************************************)
(* Delivery.  The events a webhook request broadcasts are those storeEvent *)
(* built, whose fields json.Marshal always serializes, so the streaming    *)
(* loop writes every event it receives.                                    *)
(***************************************************************************)
NextDeliver ==
    \/ \E l \in Loops : LoopStart(l)
    \/ \E l \in Loops : CtxCancel(l)
    \/ \E l \in Loops : LoopCtxDone(l)
    \/ \E l \in Loops : LoopTick(l)
    \/ \E l \in Loops : LoopRecv(l, TRUE)
    \/ \E l \in Loops : LoopRecvClosed(l)
    \/ \E l \in Loops : LoopReturn(l)
    \/ \E r \in Reqs : ReqStore(r, "default", "")
    \/ \E r \in Reqs : ReqBroadcast(r)
    \/ CloseSubscribers

SpecDeliver == Init /\ [][NextDeliver]_vars

\* as in FairSpecStream: a select case that stays ready is taken in the end
FairSpecDeliver ==
    /\ SpecDeliver
    /\ \A l \in Loops :
          /\ WF_vars(LoopCtxDone(l))
          /\ WF_vars(LoopRecv(l, TRUE))
          /\ WF_vars(LoopRecvClosed(l))
          /\ WF_vars(LoopReturn(l))

\* the event with this ID sits in the buffer of the loop's channel
Buffered(l, id) ==
    /\ loop[l].sub # 0
    /\ \E i \in 1..Len(chans[loop[l].sub].buf) : chans[loop[l].sub].buf[i].ID = id

\* the loop has written the event with this ID as a data frame
Written(l, id) == \E i \in 1..Len(loop[l].out) : loop[l].out[i] = id

(***************************************************************************)
(* C37: an event in the buffer of a loop's channel is written to the       *)
(* stream in the end unless the request context is cancelled, also when    *)
(* the channel has been closed meanwhile; the receive writes one frame and *)
(* takes the event out of the buffer, no ID is written twice, a tick       *)
(* leaves buffer and output alone, and the loop observes the close only on *)
(* an empty buffer.                                                        *)
(***************************************************************************)
C37_LoopStep(l) ==
    /\ LoopTick(l) => (chans' = chans /\ loop'[l].out = loop[l].out)
    /\ LoopRecv(l, TRUE) =>
          /\ loop'[l].out = Append(loop[l].out, Head(chans[loop[l].sub].buf).ID)
          /\ chans'[loop[l].sub].buf = Tail(chans[loop[l].sub].buf)
    /\ LoopRecvClosed(l) => chans[loop[l].sub].buf = <<>>

C37_BufferedEventWritten ==
    /\ [](\A l \in Loops :
            /\ \A i, j \in 1..Len(loop[l].out) :
                  i # j => loop[l].out[i] # loop[l].out[j]
            /\ \A i \in 1..Len(loop[l].out) : ~Buffered(l, loop[l].out[i]))
    /\ [][\A l \in Loops : C37_LoopStep(l)]_vars
    /\ \A l \in Loops, id \in 1..MaxRaceReqs :
          Buffered(l, id) ~> (Written(l, id) \/ loop[l].ctxDone)

\* the channel is closed and the loop, its context not cancelled, has written
\* the event and emptied the buffer; it has yet to observe the close
C37_Witness ==
    \E l \in Loops :
        /\ loop[l].pc = "select"
        /\ ~loop[l].ctxDone
        /\ loop[l].last = "event"
        /\ loop[l].out = <<1>>
        /\ chans[loop[l].sub].closed
        /\ chans[loop[l].sub].buf = <<>>

(***************************************************************************)
(* Reads.  The store is filled for "alpha" and "default" and read for      *)
(* those keys and for "unseen", a key nothing was stored under.            *)
(***************************************************************************)
ReadKeys == {"alpha", "default", "unseen"}

NextReads ==
    \/ lastID = 0 /\ StoreEvent("alpha", "POST", "")
    \/ SetResponseConfig("default", KeysConfig)
    \/ ruleLastID < MaxEvalRules /\ AddRule("alpha", CreatedRule)
    \/ chans = <<>> /\ AddSubscriber
    \/ \E k \in ReadKeys : GetResponseConfig(k)
    \/ \E k \in ReadKeys : GetRules(k)
    \/ \E k \in ReadKeys : EvaluateRules(k, "")
    \/ \E k \in ReadKeys : EventsHandler(k)
    \/ GetKeys

SpecReads == Init /\ [][NextReads]_vars

\* a step of one of the read operations
ReadStep ==
    \/ \E k \in ReadKeys : GetResponseConfig(k)
    \/ \E k \in ReadKeys : GetRules(k)
    \/ \E k \in ReadKeys : EvaluateRules(k, "")
    \/ \E k \in ReadKeys : EventsHandler(k)
    \/ GetKeys

(***************************************************************************)
(* C38: getResponseConfig, getRules, evaluateRules, getKeys and the events *)
(* listing leave the event log, both ID counters, the configs, the rules   *)
(* and the subscriber registry as they are, so getKeys gives the same keys *)
(* after as before; a key that was only read never shows up in getKeys.    *)
(***************************************************************************)
C38_ReadsChangeNothing ==
    /\ [][ReadStep =>
            /\ State' = State
            /\ getKeys(events', responses', rules') = getKeys(events, responses, rules)]_vars
    /\ []("unseen" \notin Range(getKeys(events, responses, rules)))

\* the key nothing was stored under was looked up on a store that holds an
\* event, a config, a rule and a subscriber, and got the config of "default"
C38_Witness ==
    /\ ret.op = "getResponseConfig"
    /\ ret.key = "unseen"
    /\ ret.res = KeysConfig
    /\ events # <<>>
    /\ "alpha" \in DOMAIN rules
    /\ subscribers # {}
    /\ getKeys(events, responses, rules) = <<"alpha", "default">>

(***************************************************************************)
(* C39: getKeys returns every key that an event was ever stored for, that  *)
(* holds a config, or that a rule was ever added for ("gamma" is the key   *)
(* the rules of this specification are added for).                         *)
(***************************************************************************)
C39_GetKeysStep ==
    GetKeys =>
        /\ \A i \in 1..Len(history) : history[i].Key \in Range(ret'.res)
        /\ DOMAIN responses \subseteq Range(ret'.res)
        /\ ruleLastID > 0 => "gamma" \in Range(ret'.res)

C39_SeenKeysStay == [][C39_GetKeysStep]_vars

(***************************************************************************)
(* The whole program: every operation against every other.  The           *)
(* properties are stated on the component specifications above, each of    *)
(* which keeps the operations that touch the state its properties read.    *)
(***************************************************************************)
Next ==
    \/ NextLog
    \/ NextConfig
    \/ NextEvents
    \/ NextRules
    \/ NextEval
    \/ NextRuleStore
    \/ NextReplace
    \/ NextKeys
    \/ NextHub
    \/ NextStream
    \/ NextWebhook
    \/ NextWebhookHub
    \/ NextStoreRace
    \/ NextCalls
    \/ NextConfigApi
    \/ NextRulesApi
    \/ NextNullRule
    \/ NextBody
    \/ NextFanout
    \/ NextPostRace
    \/ NextVersions
    \/ NextDeliver
    \/ NextReads

Spec == Init /\ [][Next]_vars

====
